---- MODULE Spec2Model ----
(***************************************************************************)
(* A model of huwise-utils-py: the HTTP gateway with its retry wrapper     *)
(* (http.py), the bulk metadata fetch in its sequential and concurrent     *)
(* forms, the bulk metadata update and the paginated listing (bulk.py),    *)
(* the resolution of dataset identifiers (utils/validators.py), and the    *)
(* getters, the idle-wait gated setters and publish / unpublish of         *)
(* HuwiseDataset (dataset.py).  Each operation has its own specification   *)
(* over the shared variables; the variables of the operations that are not *)
(* running stay at their idle values.                                      *)
(*                                                                         *)
(* The remote platform is the environment.  Its answer to a request is a   *)
(* script: the first `fails` attempts end in a fault, every later attempt  *)
(* gives the final outcome.  A script is fixed the first time a target is  *)
(* contacted and replayed afterwards, so two calls can be compared under   *)
(* the same behaviour of the remote.                                       *)
(***************************************************************************)
EXTENDS Integers, Sequences, FiniteSets, TLC

(***************************************************************************)
(* Bounds of the model.                                                    *)
(***************************************************************************)
MaxLen == 2        \* longest identifier list handed to a bulk fetch
MaxFails == 1      \* most transient faults before a request's final outcome
MaxSpecs == 2      \* longest list of update specs handed to a bulk update
MaxPolls == 4      \* most non-idle answers the platform gives to one setter

(***************************************************************************)
(* Program constants.                                                      *)
(***************************************************************************)
Tries == 6         \* @retry(HTTP_ERRORS_TO_RETRY, tries=6, ...) on HttpClient

Uids == {"da_a", "da_b", "da_c"}
Ids == {"100", "200"}

\* The platform's dataset_id -> uid table (one dataset per numeric id).
UidOf(id) == IF id = "100" THEN "da_a" ELSE "da_b"

Unseen == [fails |-> 0, fault |-> "none", final |-> "unseen"]

\* Outcomes of one attempt: a 2xx response carrying the item asked for
\* ("ok"), a 2xx response without it ("missing": no metadata member, or an
\* empty results list), a connection error or timeout raised by httpx
\* ("conn"), a non-2xx response ("http").
Faults == {"conn", "http"}
Finals == {"ok", "missing", "conn", "http"}

Scripts ==
    {s \in [fails : 0..MaxFails, fault : Faults, final : Finals] :
        s.fails = 0 => s.fault = "conn"}

AttemptOutcome(s, k) == IF k <= s.fails THEN s.fault ELSE s.final

(***************************************************************************)
(* http.py: retry.wrapper.  `k` is the number of the attempt about to be   *)
(* made, `mtries` the wrapper's countdown.  The result names the outcome   *)
(* of the attempt that ended the call and the number of attempts made.     *)
(* HttpClient.get/post/put call raise_for_status(), so "http" is raised as *)
(* HTTPStatusError, which is one of HTTP_ERRORS_TO_RETRY.                  *)
(***************************************************************************)
RECURSIVE RetryWrapper(_, _, _)
RetryWrapper(s, k, mtries) ==
    IF mtries > 1 /\ AttemptOutcome(s, k) \in Faults
    THEN RetryWrapper(s, k + 1, mtries - 1)
    ELSE [out |-> AttemptOutcome(s, k), attempts |-> k]

HttpClientGet(s) == RetryWrapper(s, 1, Tries)

\* httpx.AsyncClient.get as handed out by AsyncHttpClient.session(): one
\* attempt, no raise_for_status(); "http" is a returned non-2xx response.
SessionGet(s) == [out |-> AttemptOutcome(s, 1), attempts |-> 1]

(***************************************************************************)
(* Values of the result mapping of a bulk fetch.                           *)
(***************************************************************************)
Doc(uid) == [kind |-> "metadata", val |-> uid]
Err(msg) == [kind |-> "error", val |-> msg]

ExcName(out) ==
    CASE out = "conn" -> "ConnectError"
      [] out = "http" -> "HTTPStatusError"
      [] OTHER -> "KeyError"

EmptyMap == [k \in {} |-> Err("")]
NoOutcome == [pc |-> "none", result |-> EmptyMap, exc |-> "none", nreq |-> 0]

VARIABLES
    remote,      \* target (uid or numeric id) -> script of the platform
    runMode,     \* "sync": bulk_get_metadata, "async": bulk_get_metadata_async
    argKind,     \* which of dataset_ids / dataset_uids the caller passed
    args,        \* the list the caller passed
    pc,          \* position in the running call
    i,           \* loop index of the resolution and of the sequential fetch
    uids,        \* the local list `uids`
    id_to_uid,   \* the local dict `id_to_uid` (uid -> numeric id)
    responses,   \* the gathered responses of the concurrent fetch
    result,      \* the local dict `result`
    exc,         \* the exception that left the call, "none" if none
    nreq,        \* HTTP attempts issued by the running call
    outcome,     \* run mode -> how that call ended
    \* bulk_update_metadata_async
    updates,     \* the list of update specs the caller passed
    publish,     \* the keyword argument `publish`
    uPc,         \* position in the running bulk update
    uIdx,        \* index of the spec the loop is at
    uUid,        \* the local `uid` of the current spec
    uMetadata,   \* the local `metadata` of the current spec
    uFields,     \* the local `fields_updated` of the current spec
    results,     \* the local dict `results`
    uExc,        \* the exception that left the call, "none" if none
    docs,        \* the platform's metadata document of every dataset
    uLog,        \* the requests the platform got, in order, with their outcome
    \* HuwiseDataset._set_metadata_value
    wValue,      \* the value to write
    wPublish,    \* the keyword argument `publish`
    wPc,         \* position in the running setter
    wLog,        \* the requests the setter has issued, in order
    wExc,        \* the exception that left the setter, "none" if none
    staged,      \* the platform's staged value of the field
    visible,     \* the platform's published value of the field
    \* retry.wrapper
    tries,       \* the decorator's parameter `tries`
    delay,       \* the decorator's parameter `delay`
    backoff,     \* the decorator's parameter `backoff`
    mtries,      \* the wrapper's countdown
    mdelay,      \* the wrapper's current wait
    rPc,         \* position in the wrapper
    rTrace,      \* the calls of the wrapped function and the sleeps, in order
    rExc,        \* the exception that left the wrapper, "none" if none
    \* bulk_get_dataset_ids / bulk_get_dataset_ids_async
    lMode,       \* "sync": bulk_get_dataset_ids, "async": the _async form
    lPages,      \* the platform's collection, page by page
    include_restricted,  \* the keyword argument
    max_datasets,        \* the keyword argument, None or a number
    all_ids,     \* the local list `all_ids`
    offset,      \* the local `offset` (sequential form)
    lData,       \* number of the page held in `data`, 0 before the first
    lPc,         \* position in the running listing
    lReqs,       \* the pages requested, in order
    \* validate_dataset_identifier, HuwiseDataset.from_id, get_uid_by_id
    vFn,         \* which of the three is called
    vId,         \* the argument `dataset_id`
    vUid,        \* the argument `dataset_uid`
    vPc,         \* position in the running call
    vRet,        \* the uid returned (the uid of the instance for from_id)
    vExc,        \* the exception that left the call, "none" if none
    vAnswer,     \* how the lookup request ended, "none" before it
    vCalls,      \* calls of HttpClient.get made
    vAttempts,   \* HTTP attempts those calls made
    \* HuwiseDataset getters
    gGetter,     \* the getter called
    gDoc,        \* the platform's metadata document of the dataset
    gPc,         \* position in the running getter
    gValue,      \* the local `value` of get_license
    gRet,        \* the value returned
    gExc,        \* the exception that left the getter, "none" if none
    gLog,        \* the templates requested, in order
    \* a chain of calls on one HuwiseDataset
    dChain,      \* the calls of the chain
    dAt,         \* index of the running call
    dPc,         \* position in the running call
    dK,          \* number of the PUT the running call is at
    dLog,        \* the requests issued, in order
    dExc,        \* the exception that left the chain, "none" if none
    dRet,        \* what the last call returned
    dStaged,     \* the platform's staged fields of the default template
    dVisible,    \* the platform's published fields
    dPublished   \* whether the platform shows the dataset as published

fetchVars == <<remote, runMode, argKind, args, pc, i, uids, id_to_uid,
               responses, result, exc, nreq, outcome>>

updVars == <<updates, publish, uPc, uIdx, uUid, uMetadata, uFields, results,
             uExc, docs, uLog>>

writeVars == <<wValue, wPublish, wPc, wLog, wExc, staged, visible>>

retryVars == <<tries, delay, backoff, mtries, mdelay, rPc, rTrace, rExc>>

listVars == <<lMode, lPages, include_restricted, max_datasets, all_ids, offset,
              lData, lPc, lReqs>>

identVars == <<vFn, vId, vUid, vPc, vRet, vExc, vAnswer, vCalls, vAttempts>>

readVars == <<gGetter, gDoc, gPc, gValue, gRet, gExc, gLog>>

dsVars == <<dChain, dAt, dPc, dK, dLog, dExc, dRet, dStaged, dVisible, dPublished>>

vars == <<fetchVars, updVars, writeVars, retryVars, listVars, identVars,
          readVars, dsVars>>

notFetch == <<updVars, writeVars, retryVars, listVars, identVars, readVars, dsVars>>
notUpd == <<fetchVars, writeVars, retryVars, listVars, identVars, readVars, dsVars>>
notWrite == <<fetchVars, updVars, retryVars, listVars, identVars, readVars, dsVars>>
notRetry == <<fetchVars, updVars, writeVars, listVars, identVars, readVars, dsVars>>
notList == <<fetchVars, updVars, writeVars, retryVars, identVars, readVars, dsVars>>
notIdent == <<fetchVars, updVars, writeVars, retryVars, listVars, readVars, dsVars>>
notRead == <<fetchVars, updVars, writeVars, retryVars, listVars, identVars, dsVars>>
notDs == <<fetchVars, updVars, writeVars, retryVars, listVars, identVars, readVars>>

(***************************************************************************)
(* Metadata documents: template -> field -> wrapper, a wrapper being a     *)
(* mapping of attribute names ("value", ...) to values.                    *)
(***************************************************************************)
None == "None"
EmptyDoc == [k \in {} |-> [f \in {} |-> [a \in {} |-> ""]]]

\* A document with the default template (title set, keywords unset) and
\* the internal template.
DocWithDefault ==
    ("default" :> ("title" :> ("value" :> "T0" @@ "remote_value" :> "R0")))
    @@ ("internal" :> ("license_id" :> ("value" :> "cc_by")))

\* A document without the default template.
DocNoDefault == ("internal" :> ("license_id" :> ("value" :> "cc_by")))

DocShapes == {DocWithDefault, DocNoDefault}

\* The variables of an operation that is not running.
FetchIdle ==
    /\ remote = [t \in Uids \cup Ids |-> Unseen]
    /\ runMode = "end"
    /\ argKind = "neither"
    /\ args = <<>>
    /\ pc = "end"
    /\ i = 1
    /\ uids = <<>>
    /\ id_to_uid = EmptyMap
    /\ responses = <<>>
    /\ result = EmptyMap
    /\ exc = "none"
    /\ nreq = 0
    /\ outcome = [m \in {"sync", "async"} |-> NoOutcome]

UpdIdle ==
    /\ updates = <<>>
    /\ publish = TRUE
    /\ uPc = "end"
    /\ uIdx = 1
    /\ uUid = None
    /\ uMetadata = EmptyDoc
    /\ uFields = <<>>
    /\ results = EmptyMap
    /\ uExc = "none"
    /\ docs = [u \in Uids |-> DocWithDefault]
    /\ uLog = <<>>

WriteIdle ==
    /\ wValue = "T0"
    /\ wPublish = TRUE
    /\ wPc = "end"
    /\ wLog = <<>>
    /\ wExc = "none"
    /\ staged = "T0"
    /\ visible = "T0"

RetryIdle ==
    /\ tries = 1
    /\ delay = 0
    /\ backoff = 1
    /\ mtries = 1
    /\ mdelay = 0
    /\ rPc = "end"
    /\ rTrace = <<>>
    /\ rExc = "none"

ListIdle ==
    /\ lMode = "end"
    /\ lPages = <<>>
    /\ include_restricted = TRUE
    /\ max_datasets = None
    /\ all_ids = <<>>
    /\ offset = 0
    /\ lData = 0
    /\ lPc = "end"
    /\ lReqs = <<>>

IdentIdle ==
    /\ vFn = "none"
    /\ vId = None
    /\ vUid = None
    /\ vPc = "end"
    /\ vRet = None
    /\ vExc = "none"
    /\ vAnswer = "none"
    /\ vCalls = 0
    /\ vAttempts = 0

ReadIdle ==
    /\ gGetter = "none"
    /\ gDoc = EmptyDoc
    /\ gPc = "end"
    /\ gValue = None
    /\ gRet = None
    /\ gExc = "none"
    /\ gLog = <<>>

DsIdle ==
    /\ dChain = <<>>
    /\ dAt = 1
    /\ dPc = "end"
    /\ dK = 1
    /\ dLog = <<>>
    /\ dExc = "none"
    /\ dRet = None
    /\ dStaged = [f \in {} |-> ""]
    /\ dVisible = [f \in {} |-> ""]
    /\ dPublished = FALSE

RECURSIVE SeqsUpTo(_, _)
SeqsUpTo(S, n) ==
    IF n = 0 THEN {<<>>}
    ELSE LET shorter == SeqsUpTo(S, n - 1)
         IN  shorter \cup {Append(q, x) : q \in {r \in shorter : Len(r) = n - 1}, x \in S}

Range(q) == {q[j] : j \in 1..Len(q)}

\* The script of a target, fixed at first contact.
Contact(t, s) ==
    /\ s \in Scripts
    /\ \/ remote[t] = Unseen /\ remote' = [remote EXCEPT ![t] = s]
       \/ remote[t] = s /\ UNCHANGED remote

(***************************************************************************)
(* bulk_get_metadata / bulk_get_metadata_async                             *)
(***************************************************************************)
FetchInit ==
    /\ remote = [t \in Uids \cup Ids |-> Unseen]
    /\ runMode = "sync"
    /\ argKind \in {"ids", "uids", "both", "neither"}
    /\ args \in
         CASE argKind = "ids" -> SeqsUpTo(Ids, MaxLen)
           [] argKind = "uids" -> SeqsUpTo(Uids, MaxLen)
           [] OTHER -> {<<>>}
    /\ pc = "validate"
    /\ i = 1
    /\ uids = <<>>
    /\ id_to_uid = EmptyMap
    /\ responses = <<>>
    /\ result = EmptyMap
    /\ exc = "none"
    /\ nreq = 0
    /\ outcome = [m \in {"sync", "async"} |-> NoOutcome]
    /\ UpdIdle
    /\ WriteIdle
    /\ RetryIdle
    /\ ListIdle
    /\ IdentIdle
    /\ ReadIdle
    /\ DsIdle

\* bulk.py 52-55 and 225-228, then the uids branch of 70-71 / 242-243.
Validate ==
    /\ pc = "validate"
    /\ IF argKind \in {"both", "neither"}
       THEN /\ pc' = "raised"
            /\ exc' = "ValueError"
            /\ UNCHANGED uids
       ELSE /\ pc' = IF argKind = "ids" THEN "resolve" ELSE "dispatch"
            /\ uids' = IF argKind = "uids" THEN args ELSE <<>>
            /\ UNCHANGED exc
    /\ UNCHANGED <<remote, runMode, argKind, args, i, id_to_uid, responses,
                   result, nreq, outcome>>
    /\ UNCHANGED notFetch

\* bulk.py 65-69 and 237-241: one lookup through HttpClient.get, outside
\* any try block.
ResolveOne ==
    /\ pc = "resolve"
    /\ i <= Len(args)
    /\ \E s \in Scripts :
         /\ Contact(args[i], s)
         /\ LET r == HttpClientGet(s)
                uid == UidOf(args[i])
            IN  /\ nreq' = nreq + r.attempts
                /\ IF r.out = "ok"
                   THEN /\ uids' = Append(uids, uid)
                        /\ id_to_uid' = (uid :> args[i]) @@ id_to_uid
                        /\ i' = i + 1
                        /\ UNCHANGED <<pc, exc>>
                   ELSE /\ pc' = "raised"
                        /\ exc' = IF r.out = "missing" THEN "IndexError"
                                  ELSE ExcName(r.out)
                        /\ UNCHANGED <<uids, id_to_uid, i>>
    /\ UNCHANGED <<runMode, argKind, args, responses, result, outcome>>
    /\ UNCHANGED notFetch

ResolveDone ==
    /\ pc = "resolve"
    /\ i > Len(args)
    /\ pc' = "dispatch"
    /\ UNCHANGED <<remote, runMode, argKind, args, i, uids, id_to_uid,
                   responses, result, exc, nreq, outcome>>
    /\ UNCHANGED notFetch

\* A variant that reports under the uid whatever the caller passed.
KeyOfUidOnly(map, uid) == uid

\* key = id_to_uid.get(uid, uid)
KeyOf(map, uid) == IF uid \in DOMAIN map THEN map[uid] ELSE uid

\* bulk.py 247-248 (sequential) and 75-76 (concurrent): the requests are
\* about to be issued.
Dispatch ==
    /\ pc = "dispatch"
    /\ pc' = IF runMode = "sync" THEN "fetch" ELSE "gather"
    /\ i' = 1
    /\ responses' = [j \in 1..Len(uids) |-> "pending"]
    /\ UNCHANGED <<remote, runMode, argKind, args, uids, id_to_uid, result,
                   exc, nreq, outcome>>
    /\ UNCHANGED notFetch

\* The entry the sequential loop stores for one uid (bulk.py 250-255).
SyncEntry(r, uid) ==
    CASE r.out = "ok" -> Doc(uid)
      [] r.out = "missing" -> Err("KeyError")
      [] OTHER -> Err(ExcName(r.out))

\* bulk.py 248-255: one iteration of the sequential loop.
FetchOne ==
    /\ pc = "fetch"
    /\ i <= Len(uids)
    /\ \E s \in Scripts :
         /\ Contact(uids[i], s)
         /\ LET r == HttpClientGet(s)
                key == KeyOf(id_to_uid, uids[i])
            IN  /\ nreq' = nreq + r.attempts
                /\ result' = (key :> SyncEntry(r, uids[i])) @@ result
    /\ i' = i + 1
    /\ UNCHANGED <<runMode, argKind, args, pc, uids, id_to_uid, responses,
                   exc, outcome>>
    /\ UNCHANGED notFetch

\* bulk.py 263
FetchReturn ==
    /\ pc = "fetch"
    /\ i > Len(uids)
    /\ pc' = "returned"
    /\ UNCHANGED <<remote, runMode, argKind, args, i, uids, id_to_uid,
                   responses, result, exc, nreq, outcome>>
    /\ UNCHANGED notFetch

\* bulk.py 76-77: one of the gathered tasks completes; return_exceptions
\* keeps a raised exception as that task's value.
GatherOne ==
    /\ pc = "gather"
    /\ \E j \in 1..Len(uids) :
         /\ responses[j] = "pending"
         /\ \E s \in Scripts :
              /\ Contact(uids[j], s)
              /\ responses' = [responses EXCEPT ![j] = SessionGet(s).out]
              /\ nreq' = nreq + 1
    /\ UNCHANGED <<runMode, argKind, args, pc, i, uids, id_to_uid, result,
                   exc, outcome>>
    /\ UNCHANGED notFetch

\* bulk.py 79-86, the loop over zip(uids, responses) from position j on
\* with the mapping built so far: [result, exc].
RECURSIVE Assemble(_, _, _, _, _)
Assemble(us, rs, map, j, acc) ==
    IF j > Len(us) THEN [result |-> acc, exc |-> "none"]
    ELSE LET key == KeyOf(map, us[j])
         IN  CASE rs[j] = "conn" ->
                    Assemble(us, rs, map, j + 1, (key :> Err(ExcName("conn"))) @@ acc)
               [] rs[j] = "ok" ->
                    Assemble(us, rs, map, j + 1, (key :> Doc(us[j])) @@ acc)
               [] OTHER -> [result |-> acc, exc |-> "KeyError"]

\* bulk.py 77-94: gather has completed, the result is assembled.
GatherReturn ==
    /\ pc = "gather"
    /\ \A j \in 1..Len(uids) : responses[j] # "pending"
    /\ LET a == Assemble(uids, responses, id_to_uid, 1, EmptyMap)
       IN  /\ result' = a.result
           /\ exc' = a.exc
           /\ pc' = IF a.exc = "none" THEN "returned" ELSE "raised"
    /\ UNCHANGED <<remote, runMode, argKind, args, i, uids, id_to_uid,
                   responses, nreq, outcome>>
    /\ UNCHANGED notFetch

\* The caller: after bulk_get_metadata has ended, the same arguments go to
\* bulk_get_metadata_async.
NextCall ==
    /\ pc \in {"returned", "raised"}
    /\ runMode \in {"sync", "async"}
    /\ outcome' = [outcome EXCEPT ![runMode] =
                      [pc |-> pc, result |-> result, exc |-> exc, nreq |-> nreq]]
    /\ runMode' = IF runMode = "sync" THEN "async" ELSE "end"
    /\ pc' = IF runMode = "sync" THEN "validate" ELSE "end"
    /\ i' = 1
    /\ uids' = <<>>
    /\ id_to_uid' = EmptyMap
    /\ responses' = <<>>
    /\ result' = EmptyMap
    /\ exc' = "none"
    /\ nreq' = 0
    /\ UNCHANGED <<remote, argKind, args>>
    /\ UNCHANGED notFetch

FetchNext ==
    \/ Validate
    \/ ResolveOne
    \/ ResolveDone
    \/ Dispatch
    \/ FetchOne
    \/ FetchReturn
    \/ GatherOne
    \/ GatherReturn
    \/ NextCall

SpecFetch == FetchInit /\ [][FetchNext]_vars

(***************************************************************************)
(* Properties of the bulk fetch.                                           *)
(***************************************************************************)
Modes == {"sync", "async"}

\* The call of mode m as the retry-wrapped client or the bare session issues it.
Fetched(m, u) == IF m = "sync" THEN HttpClientGet(remote[u]) ELSE SessionGet(remote[u])

\* The uid a caller's identifier stands for.
UidFor(a) == IF argKind = "ids" THEN UidOf(a) ELSE a

\* Every identifier of the call was resolved, so every fetch was issued.
AllResolved ==
    /\ argKind \in {"ids", "uids"}
    /\ argKind = "ids" => \A a \in Range(args) : HttpClientGet(remote[a]).out = "ok"

C2_FailureIsolated ==
    \A m \in Modes :
        (/\ outcome[m].pc # "none"
         /\ AllResolved
         /\ \E b \in Range(args) :
               /\ Fetched(m, UidFor(b)).out \in Faults
               /\ \A a \in Range(args) \ {b} : Fetched(m, UidFor(a)).out = "ok")
        => /\ outcome[m].pc = "returned"
           /\ \A a \in Range(args) :
                 /\ a \in DOMAIN outcome[m].result
                 /\ outcome[m].result[a] =
                       IF Fetched(m, UidFor(a)).out = "ok"
                       THEN Doc(UidFor(a))
                       ELSE Err(ExcName(Fetched(m, UidFor(a)).out))

\* C5: in a bulk fetch by dataset_ids, when the lookup of one id returns
\* zero results the call, in either mode, returns with an error entry for
\* that id.
C5_LookupMissIsolated ==
    \A m \in Modes :
        (/\ outcome[m].pc # "none"
         /\ argKind = "ids"
         /\ \E a \in Range(args) : HttpClientGet(remote[a]).out = "missing")
        => /\ outcome[m].pc = "returned"
           /\ \A a \in Range(args) :
                 HttpClientGet(remote[a]).out = "missing"
                 => /\ a \in DOMAIN outcome[m].result
                    /\ outcome[m].result[a].kind = "error"

\* C7: for the same identifiers and the same behaviour of the remote,
\* bulk_get_metadata and bulk_get_metadata_async end the same way: both
\* return equal mappings or both raise the same exception.
C7_SyncAsyncEquivalent ==
    (outcome["sync"].pc # "none" /\ outcome["async"].pc # "none")
    => /\ outcome["sync"].pc = outcome["async"].pc
       /\ outcome["sync"].result = outcome["async"].result
       /\ outcome["sync"].exc = outcome["async"].exc

\* C8: a fetch that fails with a retryable fault fewer times than the
\* attempt count and then succeeds produces no error: its entry in the
\* result of a bulk fetch is the metadata document, in the concurrent mode
\* as in the sequential one.
C8_TransientFaultAbsorbed ==
    \A m \in Modes :
        (outcome[m].pc # "none" /\ AllResolved)
        => \A a \in Range(args) :
              (remote[UidFor(a)].fails < Tries /\ remote[UidFor(a)].final = "ok")
              => /\ outcome[m].pc = "returned"
                 /\ a \in DOMAIN outcome[m].result
                 /\ outcome[m].result[a] = Doc(UidFor(a))

(***************************************************************************)
(* bulk_update_metadata_async (bulk_update_metadata runs it under          *)
(* asyncio.run).                                                           *)
(***************************************************************************)
FieldLists ==
    {<<[key |-> "title", value |-> "X"]>>,
     <<[key |-> "keywords", value |-> "K"], [key |-> "title", value |-> "Y"]>>}

UpdSpecs ==
    [dataset_uid : {None, "da_a", "da_b"}, dataset_id : {None, "100"},
     fields : FieldLists]

\* Python truthiness of an identifier taken with dict.get: None (and the
\* empty string) count as absent.
Truthy(x) == x # None /\ x # ""

Success(fields) == [status |-> "success", fields_updated |-> fields]
Failure(msg) == [status |-> "error", error |-> msg]

\* A variant that appends the value to the one the field already holds.
SetFieldAppending(doc, key, value) ==
    LET d1 == IF "default" \in DOMAIN doc THEN doc
              ELSE ("default" :> [f \in {} |-> [a \in {} |-> ""]]) @@ doc
        t1 == IF key \in DOMAIN d1["default"] THEN d1["default"]
              ELSE (key :> [a \in {} |-> ""]) @@ d1["default"]
        w == ("value" :> (IF "value" \in DOMAIN t1[key]
                          THEN t1[key]["value"] \o value ELSE value)) @@ t1[key]
    IN  ("default" :> ((key :> w) @@ t1)) @@ d1

\* A variant that replaces the field's wrapper by {"value": value}.
SetFieldReplacingWrapper(doc, key, value) ==
    LET d1 == IF "default" \in DOMAIN doc THEN doc
              ELSE ("default" :> [f \in {} |-> [a \in {} |-> ""]]) @@ doc
    IN  ("default" :> ((key :> ("value" :> value)) @@ d1["default"])) @@ d1

\* bulk.py 163-167: metadata["default"][key]["value"] = value, the
\* template and the wrapper being created when absent.
SetField(doc, key, value) ==
    LET d1 == IF "default" \in DOMAIN doc THEN doc
              ELSE ("default" :> [f \in {} |-> [a \in {} |-> ""]]) @@ doc
        t1 == IF key \in DOMAIN d1["default"] THEN d1["default"]
              ELSE (key :> [a \in {} |-> ""]) @@ d1["default"]
        w == ("value" :> value) @@ t1[key]
    IN  ("default" :> ((key :> w) @@ t1)) @@ d1

\* bulk.py 159-168: the loop over the spec's items, identifier keys skipped.
RECURSIVE UpdateFields(_, _, _)
UpdateFields(doc, fields, j) ==
    IF j > Len(fields) THEN doc
    ELSE UpdateFields(SetField(doc, fields[j].key, fields[j].value), fields, j + 1)

FieldsUpdated(fields) == [j \in 1..Len(fields) |-> fields[j].key]

\* Scripts of a request whose 2xx answer always carries what is asked for.
PlainScripts == {s \in Scripts : s.final # "missing"}

UpdInit ==
    /\ updates \in SeqsUpTo(UpdSpecs, MaxSpecs)
    /\ publish \in BOOLEAN
    /\ uPc = "loop"
    /\ uIdx = 1
    /\ uUid = None
    /\ uMetadata = EmptyDoc
    /\ uFields = <<>>
    /\ results = EmptyMap
    /\ uExc = "none"
    /\ docs \in {d \in [Uids -> DocShapes] : d["da_c"] = DocWithDefault}
    /\ uLog = <<>>
    /\ FetchIdle
    /\ WriteIdle
    /\ RetryIdle
    /\ ListIdle
    /\ IdentIdle
    /\ ReadIdle
    /\ DsIdle

\* A variant that skips a spec failing validation instead of raising.
UpdBeginSkipping ==
    /\ uPc = "loop"
    /\ uIdx <= Len(updates)
    /\ LET dataset_uid == updates[uIdx].dataset_uid
           dataset_id == updates[uIdx].dataset_id
       IN  IF \/ Truthy(dataset_uid) /\ Truthy(dataset_id)
              \/ ~Truthy(dataset_uid) /\ ~Truthy(dataset_id)
           THEN /\ uIdx' = uIdx + 1
                /\ UNCHANGED <<uPc, uUid>>
           ELSE /\ uPc' = IF Truthy(dataset_id) THEN "resolve" ELSE "get"
                /\ uUid' = IF Truthy(dataset_id) THEN None ELSE dataset_uid
                /\ UNCHANGED uIdx
    /\ UNCHANGED <<updates, publish, uExc, uMetadata, uFields, results, docs, uLog>>
    /\ UNCHANGED notUpd

\* bulk.py 137-144, 151: the next spec is taken and validated; a spec given
\* by uid needs no lookup.
UpdBegin ==
    /\ uPc = "loop"
    /\ uIdx <= Len(updates)
    /\ LET dataset_uid == updates[uIdx].dataset_uid
           dataset_id == updates[uIdx].dataset_id
       IN  IF \/ Truthy(dataset_uid) /\ Truthy(dataset_id)
              \/ ~Truthy(dataset_uid) /\ ~Truthy(dataset_id)
           THEN /\ uPc' = "raised"
                /\ uExc' = "ValueError"
                /\ UNCHANGED uUid
           ELSE /\ uPc' = IF Truthy(dataset_id) THEN "resolve" ELSE "get"
                /\ uUid' = IF Truthy(dataset_id) THEN None ELSE dataset_uid
                /\ UNCHANGED uExc
    /\ UNCHANGED <<updates, publish, uIdx, uMetadata, uFields, results, docs, uLog>>
    /\ UNCHANGED notUpd

\* bulk.py 147-149: the lookup of a numeric id, before the try block.
UpdResolve ==
    /\ uPc = "resolve"
    /\ \E s \in Scripts :
         LET r == HttpClientGet(s)
         IN  /\ uLog' = Append(uLog, <<"GET", "lookup",
                                        updates[uIdx].dataset_id, r.out>>)
             /\ IF r.out = "ok"
                THEN /\ uUid' = UidOf(updates[uIdx].dataset_id)
                     /\ uPc' = "get"
                     /\ UNCHANGED uExc
                ELSE /\ uPc' = "raised"
                     /\ uExc' = IF r.out = "missing" THEN "IndexError"
                                ELSE ExcName(r.out)
                     /\ UNCHANGED uUid
    /\ UNCHANGED <<updates, publish, uIdx, uMetadata, uFields, results, docs>>
    /\ UNCHANGED notUpd

\* A variant whose except branch logs the failure without recording it.
RecordFailureDropped(msg) ==
    /\ UNCHANGED results
    /\ uIdx' = uIdx + 1
    /\ uPc' = "loop"

\* bulk.py 179-181: the except branch records the error; the loop goes on.
RecordFailure(msg) ==
    /\ results' = (uUid :> Failure(msg)) @@ results
    /\ uIdx' = uIdx + 1
    /\ uPc' = "loop"

\* bulk.py 176-177
RecordSuccess ==
    /\ results' = (uUid :> Success(uFields)) @@ results
    /\ uIdx' = uIdx + 1
    /\ uPc' = "loop"

\* bulk.py 155-168: the document is fetched and modified locally.
UpdGet ==
    /\ uPc = "get"
    /\ \E s \in PlainScripts :
         LET r == HttpClientGet(s)
         IN  /\ uLog' = Append(uLog, <<"GET", "metadata", uUid, r.out>>)
             /\ IF r.out = "ok"
                THEN /\ uMetadata' = UpdateFields(docs[uUid], updates[uIdx].fields, 1)
                     /\ uFields' = FieldsUpdated(updates[uIdx].fields)
                     /\ uPc' = "put"
                     /\ UNCHANGED <<results, uIdx>>
                ELSE /\ RecordFailure(ExcName(r.out))
                     /\ UNCHANGED <<uMetadata, uFields>>
    /\ UNCHANGED <<updates, publish, uUid, uExc, docs>>
    /\ UNCHANGED notUpd

\* A variant that publishes whatever the publish argument says.
UpdPutAlwaysPublishing ==
    /\ uPc = "put"
    /\ \E s \in PlainScripts :
         LET r == HttpClientGet(s)
         IN  /\ uLog' = Append(uLog, <<"PUT", "metadata", uUid, r.out>>)
             /\ IF r.out = "ok"
                THEN /\ docs' = [docs EXCEPT ![uUid] = uMetadata]
                     /\ uPc' = "post"
                     /\ UNCHANGED <<results, uIdx>>
                ELSE /\ RecordFailure(ExcName(r.out))
                     /\ UNCHANGED docs
    /\ UNCHANGED <<updates, publish, uUid, uMetadata, uFields, uExc>>
    /\ UNCHANGED notUpd

\* A variant whose PUT applies the spec's values to the document the
\* platform holds at that moment.
UpdPutMerging ==
    /\ uPc = "put"
    /\ \E s \in PlainScripts :
         LET r == HttpClientGet(s)
         IN  /\ uLog' = Append(uLog, <<"PUT", "metadata", uUid, r.out>>)
             /\ IF r.out = "ok"
                THEN /\ docs' = [docs EXCEPT
                                   ![uUid] = UpdateFields(docs[uUid],
                                                          updates[uIdx].fields, 1)]
                     /\ IF publish
                        THEN uPc' = "post" /\ UNCHANGED <<results, uIdx>>
                        ELSE RecordSuccess
                ELSE /\ RecordFailure(ExcName(r.out))
                     /\ UNCHANGED docs
    /\ UNCHANGED <<updates, publish, uUid, uMetadata, uFields, uExc>>
    /\ UNCHANGED notUpd

\* bulk.py 171-177: the whole document is put back; without publish the
\* spec is done.
UpdPut ==
    /\ uPc = "put"
    /\ \E s \in PlainScripts :
         LET r == HttpClientGet(s)
         IN  /\ uLog' = Append(uLog, <<"PUT", "metadata", uUid, r.out>>)
             /\ IF r.out = "ok"
                THEN /\ docs' = [docs EXCEPT ![uUid] = uMetadata]
                     /\ IF publish
                        THEN uPc' = "post" /\ UNCHANGED <<results, uIdx>>
                        ELSE RecordSuccess
                ELSE /\ RecordFailure(ExcName(r.out))
                     /\ UNCHANGED docs
    /\ UNCHANGED <<updates, publish, uUid, uMetadata, uFields, uExc>>
    /\ UNCHANGED notUpd

\* A variant that treats the publish request as best effort.
UpdPostBestEffort ==
    /\ uPc = "post"
    /\ \E s \in PlainScripts :
         LET r == HttpClientGet(s)
         IN  /\ uLog' = Append(uLog, <<"POST", "publish", uUid, r.out>>)
             /\ RecordSuccess
    /\ UNCHANGED <<updates, publish, uUid, uMetadata, uFields, uExc, docs>>
    /\ UNCHANGED notUpd

\* bulk.py 173-177: the publish request.
UpdPost ==
    /\ uPc = "post"
    /\ \E s \in PlainScripts :
         LET r == HttpClientGet(s)
         IN  /\ uLog' = Append(uLog, <<"POST", "publish", uUid, r.out>>)
             /\ IF r.out = "ok" THEN RecordSuccess
                ELSE RecordFailure(ExcName(r.out))
    /\ UNCHANGED <<updates, publish, uUid, uMetadata, uFields, uExc, docs>>
    /\ UNCHANGED notUpd

\* bulk.py 183-189
UpdReturn ==
    /\ uPc = "loop"
    /\ uIdx > Len(updates)
    /\ uPc' = "returned"
    /\ UNCHANGED <<updates, publish, uIdx, uUid, uMetadata, uFields, results,
                   uExc, docs, uLog>>
    /\ UNCHANGED notUpd

UpdNext ==
    \/ UpdBegin
    \/ UpdResolve
    \/ UpdGet
    \/ UpdPut
    \/ UpdPost
    \/ UpdReturn

SpecUpdate == UpdInit /\ [][UpdNext]_vars

(***************************************************************************)
(* Properties of the bulk update.                                          *)
(***************************************************************************)
\* Exactly one identifier form is present in the spec.
SpecValid(u) == Truthy(u.dataset_uid) # Truthy(u.dataset_id)

\* The uid a spec names, a numeric id being resolved by the platform's table.
NamedUid(u) == IF Truthy(u.dataset_id) THEN UidOf(u.dataset_id) ELSE u.dataset_uid

UpdEnded == uPc \in {"returned", "raised"}

InvalidAt == {j \in 1..Len(updates) : ~SpecValid(updates[j])}
FirstInvalid == CHOOSE j \in InvalidAt : \A k \in InvalidAt : j <= k

\* C3: an exception raised for one spec at any step after validation
\* (identifier resolution, metadata GET, field modification, document PUT,
\* publish POST) is recorded as that spec's error outcome, every later spec
\* is still processed and the call does not raise: a batch of valid specs
\* always returns a mapping with an entry for every spec.
C3_StepFailureRecorded ==
    (UpdEnded /\ InvalidAt = {})
    => /\ uPc = "returned"
       /\ \A j \in 1..Len(updates) : NamedUid(updates[j]) \in DOMAIN results

Statuses == {"idle", "processing", "queued"}
Values == {"T1", "T2"}

StatusPoll(answer) == <<"GET", "status", answer>>
FieldPut(value) == <<"PUT", "field", value>>
PublishPost == <<"POST", "publish", "">>

NonIdlePolls == Cardinality({l \in 1..Len(wLog) : wLog[l][2] = "status" /\ wLog[l][3] # "idle"})

\* A variant that leaves the loop on anything but "processing".
IsIdleNotProcessing(status) == status # "processing"

\* dataset.py 95: the test that ends the loop.
IsIdle(status) == status = "idle"

WriteInit ==
    /\ wValue \in Values
    /\ wPublish \in BOOLEAN
    /\ wPc = "poll"
    /\ wLog = <<>>
    /\ wExc = "none"
    /\ staged = "T0"
    /\ visible = "T0"
    /\ FetchIdle
    /\ UpdIdle
    /\ RetryIdle
    /\ ListIdle
    /\ IdentIdle
    /\ ReadIdle
    /\ DsIdle

\* A variant of the poll that gives up after two polls.
WaitPollBounded ==
    /\ wPc = "poll"
    /\ \E s \in Scripts :
         LET r == HttpClientGet(s)
         IN  IF r.out = "ok"
             THEN \E status \in Statuses :
                    /\ ~IsIdle(status) => NonIdlePolls < MaxPolls
                    /\ wLog' = Append(wLog, StatusPoll(status))
                    /\ IF IsIdle(status)
                       THEN wPc' = "put" /\ UNCHANGED wExc
                       ELSE IF NonIdlePolls >= 1
                            THEN wPc' = "raised" /\ wExc' = "TimeoutExceeded"
                            ELSE wPc' = "sleep" /\ UNCHANGED wExc
             ELSE /\ wLog' = Append(wLog, StatusPoll("raise"))
                  /\ wPc' = "raised"
                  /\ wExc' = ExcName(r.out)
    /\ UNCHANGED <<wValue, wPublish, staged, visible>>
    /\ UNCHANGED notWrite

\* dataset.py 92-97: one status poll through HttpClient.get and the test
\* of its answer; a body without a status member raises KeyError.
WaitPoll ==
    /\ wPc = "poll"
    /\ \E s \in Scripts :
         LET r == HttpClientGet(s)
         IN  IF r.out = "ok"
             THEN \E status \in Statuses :
                    /\ ~IsIdle(status) => NonIdlePolls < MaxPolls
                    /\ wLog' = Append(wLog, StatusPoll(status))
                    /\ wPc' = IF IsIdle(status) THEN "put" ELSE "sleep"
                    /\ UNCHANGED wExc
             ELSE /\ wLog' = Append(wLog, StatusPoll("raise"))
                  /\ wPc' = "raised"
                  /\ wExc' = ExcName(r.out)
    /\ UNCHANGED <<wValue, wPublish, staged, visible>>
    /\ UNCHANGED notWrite

\* dataset.py 98: time.sleep(3), then the loop polls again.
WaitSleep ==
    /\ wPc = "sleep"
    /\ wPc' = "poll"
    /\ UNCHANGED <<wValue, wPublish, wLog, wExc, staged, visible>>
    /\ UNCHANGED notWrite

\* dataset.py 133-148: the PUT of {value} to the field's endpoint.
WritePut ==
    /\ wPc = "put"
    /\ wLog' = Append(wLog, FieldPut(wValue))
    /\ \E s \in PlainScripts :
         LET r == HttpClientGet(s)
         IN  IF r.out = "ok"
             THEN /\ staged' = wValue
                  /\ wPc' = IF wPublish THEN "publish" ELSE "returned"
                  /\ UNCHANGED wExc
             ELSE /\ wPc' = "raised"
                  /\ wExc' = ExcName(r.out)
                  /\ UNCHANGED staged
    /\ UNCHANGED <<wValue, wPublish, visible>>
    /\ UNCHANGED notWrite

\* dataset.py 145-148 and 664-672: publish(), then the setter returns self.
WritePublish ==
    /\ wPc = "publish"
    /\ wLog' = Append(wLog, PublishPost)
    /\ \E s \in PlainScripts :
         LET r == HttpClientGet(s)
         IN  IF r.out = "ok"
             THEN /\ visible' = staged
                  /\ wPc' = "returned"
                  /\ UNCHANGED wExc
             ELSE /\ wPc' = "raised"
                  /\ wExc' = ExcName(r.out)
                  /\ UNCHANGED visible
    /\ UNCHANGED <<wValue, wPublish, staged>>
    /\ UNCHANGED notWrite

WriteNext ==
    \/ WaitPoll
    \/ WaitSleep
    \/ WritePut
    \/ WritePublish

SpecWrite == WriteInit /\ [][WriteNext]_vars

\* The setter runs in the caller's thread: while it has a step to take it
\* takes one.
SpecWriteFair == WriteInit /\ [][WriteNext]_vars /\ WF_vars(WriteNext)

(***************************************************************************)
(* Properties of the field write.                                          *)
(***************************************************************************)
IsStatusPoll(e) == e[1] = "GET" /\ e[2] = "status"
IdleAnswered == \E l \in 1..Len(wLog) : wLog[l] = StatusPoll("idle")
PollRaised == \E l \in 1..Len(wLog) : wLog[l] = StatusPoll("raise")
WriteEnded == wPc \in {"returned", "raised"}

\* C9: a field write issues no PUT until a status poll has answered idle:
\* the requests before the PUT are exactly k polls with a non-idle answer
\* followed by one poll answered idle (k + 1 polls), and no poll follows
\* the PUT.
C9_PutAfterIdlePoll ==
    \A j \in 1..Len(wLog) :
        wLog[j][1] = "PUT"
        => /\ j > 1
           /\ wLog[j - 1] = StatusPoll("idle")
           /\ \A l \in 1..(j - 2) :
                 IsStatusPoll(wLog[l]) /\ wLog[l][3] \in Statuses \ {"idle"}
           /\ \A l \in (j + 1)..Len(wLog) : ~IsStatusPoll(wLog[l])

\* C9 witness: the answers processing, processing, idle: three polls, then
\* the PUT.
C9_Witness ==
    /\ Len(wLog) >= 4
    /\ wLog[1] = StatusPoll("processing")
    /\ wLog[2] = StatusPoll("processing")
    /\ wLog[3] = StatusPoll("idle")
    /\ wLog[4][1] = "PUT"

\* C10: the idle-wait has no bound of its own.  As long as no status poll
\* has answered idle and none has failed, the write is still in its wait
\* loop: it has issued no PUT, has not returned and has not raised; any
\* status other than idle keeps it there.  Once a poll has answered idle
\* the write goes on and ends.
C10_WaitsExactlyUntilIdle ==
    /\ []((~IdleAnswered /\ ~PollRaised)
            => /\ wPc \in {"poll", "sleep"}
               /\ \A l \in 1..Len(wLog) : IsStatusPoll(wLog[l]))
    /\ [](wPc \in {"put", "publish", "returned"} => IdleAnswered)
    /\ (IdleAnswered ~> WriteEnded)

\* C10 witness: three polls answered with a status that is not idle (one
\* of them not "processing" either) and the write is still waiting.
C10_Witness ==
    /\ wPc = "sleep"
    /\ Len(wLog) = 3
    /\ \A l \in 1..3 : IsStatusPoll(wLog[l]) /\ wLog[l][3] # "idle"
    /\ \E l \in 1..3 : wLog[l][3] = "queued"

(***************************************************************************)
(* http.py / utils/decorators.py: retry.wrapper, statement by statement.   *)
(* The wrapped function is the environment: each call of it returns ("ok"),*)
(* raises one of the exceptions handed to the decorator ("conn", "http")   *)
(* or raises another exception ("other").                                  *)
(***************************************************************************)
MaxTries == 4        \* largest `tries` handed to the decorator by a caller

ClientDelay == 5     \* @retry(..., delay=5, ...) on HttpClient
ClientBackoff == 1   \* @retry(..., backoff=1) on HttpClient

Delays == {1, 3}
Backoffs == {1, 2, 3}

\* The parameters of the decorator: a caller's own, and HttpClient's.
RetryParams ==
    [tries : 1..MaxTries, delay : Delays, backoff : Backoffs]
    \cup {[tries |-> Tries, delay |-> ClientDelay, backoff |-> ClientBackoff]}

CallOutcomes == {"ok", "other"} \cup Faults

Call(o) == <<"call", o, 0>>
Sleep(d) == <<"sleep", "", d>>

RetryInit ==
    /\ \E p \in RetryParams :
         /\ tries = p.tries
         /\ delay = p.delay
         /\ backoff = p.backoff
    /\ mtries = tries
    /\ mdelay = delay
    /\ rPc = "loop"
    /\ rTrace = <<>>
    /\ rExc = "none"
    /\ FetchIdle
    /\ UpdIdle
    /\ WriteIdle
    /\ ListIdle
    /\ IdentIdle
    /\ ReadIdle
    /\ DsIdle

\* A variant whose loop runs while mtries >= 1.
RetryLoopCallOnceMore ==
    /\ rPc = "loop"
    /\ mtries >= 1
    /\ \E o \in CallOutcomes :
         /\ rTrace' = Append(rTrace, Call(o))
         /\ rPc' = CASE o = "ok" -> "returned"
                     [] o \in Faults -> "sleep"
                     [] OTHER -> "raised"
         /\ rExc' = IF o = "other" THEN ExcName(o) ELSE rExc
    /\ UNCHANGED <<tries, delay, backoff, mtries, mdelay>>
    /\ UNCHANGED notRetry

\* http.py 59-62: a call inside the loop; a listed exception is caught,
\* any other leaves the wrapper.
RetryLoopCall ==
    /\ rPc = "loop"
    /\ mtries > 1
    /\ \E o \in CallOutcomes :
         /\ rTrace' = Append(rTrace, Call(o))
         /\ rPc' = CASE o = "ok" -> "returned"
                     [] o \in Faults -> "sleep"
                     [] OTHER -> "raised"
         /\ rExc' = IF o = "other" THEN ExcName(o) ELSE rExc
    /\ UNCHANGED <<tries, delay, backoff, mtries, mdelay>>
    /\ UNCHANGED notRetry

\* A variant whose wait grows by addition.
RetrySleepLinear ==
    /\ rPc = "sleep"
    /\ rTrace' = Append(rTrace, Sleep(mdelay))
    /\ mtries' = mtries - 1
    /\ mdelay' = mdelay + backoff
    /\ rPc' = "loop"
    /\ UNCHANGED <<tries, delay, backoff, rExc>>
    /\ UNCHANGED notRetry

\* http.py 69-71: time.sleep(mdelay); mtries -= 1; mdelay *= backoff.
RetrySleep ==
    /\ rPc = "sleep"
    /\ rTrace' = Append(rTrace, Sleep(mdelay))
    /\ mtries' = mtries - 1
    /\ mdelay' = mdelay * backoff
    /\ rPc' = "loop"
    /\ UNCHANGED <<tries, delay, backoff, rExc>>
    /\ UNCHANGED notRetry

\* http.py 72: the call after the loop, outside any try.
RetryFinalCall ==
    /\ rPc = "loop"
    /\ mtries <= 1
    /\ \E o \in CallOutcomes :
         /\ rTrace' = Append(rTrace, Call(o))
         /\ rPc' = IF o = "ok" THEN "returned" ELSE "raised"
         /\ rExc' = IF o = "ok" THEN rExc ELSE ExcName(o)
    /\ UNCHANGED <<tries, delay, backoff, mtries, mdelay>>
    /\ UNCHANGED notRetry

RetryNext ==
    \/ RetryLoopCall
    \/ RetrySleep
    \/ RetryFinalCall

SpecRetry == RetryInit /\ [][RetryNext]_vars

(***************************************************************************)
(* Properties of the retry wrapper.                                        *)
(***************************************************************************)
CallsAt == {j \in 1..Len(rTrace) : rTrace[j][1] = "call"}
NCalls == Cardinality(CallsAt)
LastCall == rTrace[Len(rTrace)][2]
RetryEnded == rPc \in {"returned", "raised"}

RECURSIVE Pow(_, _)
Pow(b, e) == IF e = 0 THEN 1 ELSE b * Pow(b, e - 1)

\* C11: the wrapped function is called until its first call that does not
\* raise a listed exception or until `tries` calls have been made.  Every
\* call but the last one raised a listed exception; the wrapper returns
\* exactly when the last call returned, after k <= tries calls; it raises
\* the exception of the last call, and when that exception is a listed one
\* exactly `tries` calls have been made.  HttpClient has tries = 6.
C11_RetryUntilSuccessOrExhausted ==
    /\ NCalls <= tries
    /\ \A j \in CallsAt : j < Len(rTrace) => rTrace[j][2] \in Faults
    /\ ~RetryEnded => (NCalls < tries /\ \A j \in CallsAt : rTrace[j][2] \in Faults)
    /\ rPc = "returned" => (LastCall = "ok" /\ rExc = "none")
    /\ rPc = "raised"
       => /\ LastCall # "ok"
          /\ rExc = ExcName(LastCall)
          /\ LastCall \in Faults => NCalls = tries

\* C11 witness: HttpClient's configuration, every call failing: six calls,
\* then the exception of the sixth leaves the wrapper.
C11_Witness ==
    /\ tries = Tries
    /\ rPc = "raised"
    /\ NCalls = Tries
    /\ LastCall = "http"
    /\ rExc = "HTTPStatusError"

\* C12: calls and waits alternate, starting and ending with a call: one
\* wait between two consecutive calls, none after the last; the wait before
\* call k+1 is delay * backoff^(k-1).
C12_ExponentialBackoff ==
    /\ \A j \in 1..Len(rTrace) :
          IF j % 2 = 1
          THEN rTrace[j][1] = "call"
          ELSE rTrace[j] = Sleep(delay * Pow(backoff, (j \div 2) - 1))
    /\ RetryEnded => Len(rTrace) % 2 = 1

\* C12 witness: delay 3 and backoff 2, three failed calls: the waits are
\* 3, 6 and 12.
C12_Witness ==
    /\ delay = 3
    /\ backoff = 2
    /\ Len(rTrace) >= 6
    /\ rTrace[2] = Sleep(3)
    /\ rTrace[4] = Sleep(6)
    /\ rTrace[6] = Sleep(12)

(***************************************************************************)
(* bulk_get_dataset_ids / bulk_get_dataset_ids_async: the paginated        *)
(* listing.  A dataset_id is the string of its digits, written here as the *)
(* tuple of the digits; list.sort() orders strings lexicographically.      *)
(* Every page request is answered with a 2xx page.                         *)
(***************************************************************************)
MaxPages == 2        \* most pages the platform's collection has
MaxCount == 3        \* largest max_datasets a caller passes

BatchSize == 100     \* batch_size = 100

NoLimit == -1        \* max_datasets=None

Catalog ==
    {[dataset_id |-> <<1, 0>>, is_restricted |-> FALSE],
     [dataset_id |-> <<9>>, is_restricted |-> TRUE],
     [dataset_id |-> <<2>>, is_restricted |-> FALSE]}

NoRepeat(q) == Cardinality(Range(q)) = Len(q)

PageResults == {q \in SeqsUpTo(Catalog, Cardinality(Catalog)) : NoRepeat(q)}

\* A page of the collection: its results and whether it carries a next link.
Pages == [results : PageResults, next : BOOLEAN]

\* Collections in which no dataset is listed twice.
Collections ==
    {c \in SeqsUpTo(Pages, MaxPages) :
        \A j, k \in 1..Len(c) : j < k => Range(c[j].results) \cap Range(c[k].results) = {}}

\* The platform's answer to the request of page k; past the last page it
\* is an empty page without next link.
PageOf(c, k) == IF k \in 1..Len(c) THEN c[k] ELSE [results |-> <<>>, next |-> FALSE]

\* Lexicographic order of two strings of digits.
LexLess(a, b) ==
    \/ Len(a) < Len(b) /\ \A j \in 1..Len(a) : a[j] = b[j]
    \/ \E j \in 1..Len(a) :
         /\ j <= Len(b)
         /\ a[j] < b[j]
         /\ \A l \in 1..(j - 1) : a[l] = b[l]

\* bulk.py 325-328 / 379-382: the dataset_ids a page adds to all_ids.
Kept(items, incl) ==
    LET sel == SelectSeq(items, LAMBDA item : incl \/ ~item.is_restricted)
    IN  [j \in 1..Len(sel) |-> sel[j].dataset_id]

\* Python truthiness of max_datasets: None and 0 are false.
TruthyCount(n) == n # NoLimit /\ n # 0

ListInit ==
    /\ lMode \in {"sync", "async"}
    /\ lPages \in Collections
    /\ include_restricted \in BOOLEAN
    /\ max_datasets \in {NoLimit} \cup 0..MaxCount
    /\ all_ids = <<>>
    /\ offset = 0
    /\ lData = 0
    /\ lPc = "request"
    /\ lReqs = <<>>
    /\ FetchIdle
    /\ UpdIdle
    /\ WriteIdle
    /\ RetryIdle
    /\ IdentIdle
    /\ ReadIdle
    /\ DsIdle

\* bulk.py 371-391: one iteration of the sequential loop, the page being
\* requested by its offset.
SyncIteration ==
    /\ lMode = "sync"
    /\ lPc = "request"
    /\ LET k == (offset \div BatchSize) + 1
           data == PageOf(lPages, k)
           ids == all_ids \o Kept(data.results, include_restricted)
       IN  /\ lReqs' = Append(lReqs, k)
           /\ lData' = k
           /\ IF data.results = <<>>
              THEN /\ lPc' = "sort"
                   /\ UNCHANGED <<all_ids, offset>>
              ELSE IF TruthyCount(max_datasets) /\ Len(ids) >= max_datasets
              THEN /\ all_ids' = SubSeq(ids, 1, max_datasets)
                   /\ lPc' = "sort"
                   /\ UNCHANGED offset
              ELSE IF ~data.next
              THEN /\ all_ids' = ids
                   /\ lPc' = "sort"
                   /\ UNCHANGED offset
              ELSE /\ all_ids' = ids
                   /\ offset' = offset + BatchSize
                   /\ UNCHANGED lPc
    /\ UNCHANGED <<lMode, lPages, include_restricted, max_datasets>>
    /\ UNCHANGED notList

\* bulk.py 317-320: the first request of the concurrent form.
AsyncFirst ==
    /\ lMode = "async"
    /\ lPc = "request"
    /\ lReqs' = Append(lReqs, 1)
    /\ lData' = 1
    /\ lPc' = "loop"
    /\ UNCHANGED <<lMode, lPages, include_restricted, max_datasets, all_ids, offset>>
    /\ UNCHANGED notList

\* bulk.py 322-339: one iteration of the concurrent form's loop over the
\* page held in `data`; the next page is requested by its next link.
AsyncIteration ==
    /\ lMode = "async"
    /\ lPc = "loop"
    /\ LET data == PageOf(lPages, lData)
           ids == all_ids \o Kept(data.results, include_restricted)
       IN  IF TruthyCount(max_datasets) /\ Len(ids) >= max_datasets
           THEN /\ all_ids' = SubSeq(ids, 1, max_datasets)
                /\ lPc' = "sort"
                /\ UNCHANGED <<lReqs, lData>>
           ELSE IF ~data.next
           THEN /\ all_ids' = ids
                /\ lPc' = "sort"
                /\ UNCHANGED <<lReqs, lData>>
           ELSE /\ all_ids' = ids
                /\ lReqs' = Append(lReqs, lData + 1)
                /\ lData' = lData + 1
                /\ UNCHANGED lPc
    /\ UNCHANGED <<lMode, lPages, include_restricted, max_datasets, offset>>
    /\ UNCHANGED notList

\* bulk.py 341-343 / 393-395: all_ids.sort(); return all_ids.
ListReturn ==
    /\ lPc = "sort"
    /\ all_ids' = SortSeq(all_ids, LexLess)
    /\ lPc' = "returned"
    /\ UNCHANGED <<lMode, lPages, include_restricted, max_datasets, offset,
                   lData, lReqs>>
    /\ UNCHANGED notList

ListNext ==
    \/ SyncIteration
    \/ AsyncFirst
    \/ AsyncIteration
    \/ ListReturn

SpecList == ListInit /\ [][ListNext]_vars

(***************************************************************************)
(* Properties of the listing.                                              *)
(***************************************************************************)
RECURSIVE KeptThrough(_)
\* The ids the pages 1..k add under the call's include_restricted.
KeptThrough(k) ==
    IF k = 0 THEN <<>>
    ELSE KeptThrough(k - 1) \o Kept(PageOf(lPages, k).results, include_restricted)

\* A stopping condition is met at page k: no next link, empty results, or
\* a positive max_datasets reached by the ids accumulated through page k.
StopAt(k) ==
    \/ ~PageOf(lPages, k).next
    \/ PageOf(lPages, k).results = <<>>
    \/ max_datasets >= 1 /\ Len(KeptThrough(k)) >= max_datasets

\* C13: in both forms the listing stops at the first page that meets a
\* stopping condition (no next link, empty results, max_datasets reached):
\* no page is requested after such a page, and the listing returns only
\* after such a page.
C13_StopsAtStoppingCondition ==
    /\ \A j \in 1..(Len(lReqs) - 1) : ~StopAt(lReqs[j])
    /\ lPc \in {"sort", "returned"} => StopAt(lReqs[Len(lReqs)])

\* A collection as the platform serves it: every page but the last carries
\* a next link, the last does not, and no page is empty.
WellFormed(c) ==
    \A k \in 1..Len(c) : c[k].results # <<>> /\ (c[k].next <=> k < Len(c))

Available == KeptThrough(Len(lPages))

Sorted(q) == \A j, k \in 1..Len(q) : j < k => ~LexLess(q[k], q[j])

Min(a, b) == IF a < b THEN a ELSE b

\* C14: for every max_datasets >= 0 and every collection the listing
\* returns a sorted list of available ids without repetition whose length
\* is min(max_datasets, number of available ids), every available id when
\* max_datasets is None; with include_restricted false the restricted
\* datasets neither count nor appear.
C14_LengthIsMinOfMaxAndAvailable ==
    (lPc = "returned" /\ WellFormed(lPages))
    => /\ Sorted(all_ids)
       /\ NoRepeat(all_ids)
       /\ Range(all_ids) \subseteq Range(Available)
       /\ ~include_restricted
          => \A item \in Catalog : item.is_restricted => item.dataset_id \notin Range(all_ids)
       /\ Len(all_ids) = IF max_datasets = NoLimit THEN Len(Available)
                         ELSE Min(max_datasets, Len(Available))

(***************************************************************************)
(* validate_dataset_identifier (utils/validators.py), HuwiseDataset.from_id*)
(* (dataset.py) and get_uid_by_id (_legacy/getters.py).                    *)
(***************************************************************************)
Resolvers == {"validate_dataset_identifier", "from_id", "get_uid_by_id"}

\* The uid arguments a caller passes: none, the empty string, a uid.
UidArgs == {None, "", "da_a", "da_c"}

IdentInit ==
    /\ vFn \in Resolvers
    /\ vId \in IF vFn = "validate_dataset_identifier" THEN Ids \cup {None} ELSE Ids
    /\ vUid \in IF vFn = "validate_dataset_identifier" THEN UidArgs ELSE {None}
    /\ vPc = IF vFn = "validate_dataset_identifier" THEN "validate" ELSE "lookup"
    /\ vRet = None
    /\ vExc = "none"
    /\ vAnswer = "none"
    /\ vCalls = 0
    /\ vAttempts = 0
    /\ FetchIdle
    /\ UpdIdle
    /\ WriteIdle
    /\ RetryIdle
    /\ ListIdle
    /\ ReadIdle
    /\ DsIdle

\* A variant that resolves the numeric id whenever one is given.
IdentValidateIdFirst ==
    /\ vPc = "validate"
    /\ IF vId # None
       THEN vPc' = "lookup" /\ UNCHANGED <<vRet, vExc>>
       ELSE IF vUid = None
       THEN vPc' = "raised" /\ vExc' = "ValueError" /\ UNCHANGED vRet
       ELSE vPc' = "returned" /\ vRet' = vUid /\ UNCHANGED vExc
    /\ UNCHANGED <<vFn, vId, vUid, vAnswer, vCalls, vAttempts>>
    /\ UNCHANGED notIdent

\* validators.py 47-53 and 59: the two checks, then the branch on
\* dataset_id; a uid given alone is returned as it is.
IdentValidate ==
    /\ vPc = "validate"
    /\ IF vId # None /\ vUid # None
       THEN vPc' = "raised" /\ vExc' = "ValueError" /\ UNCHANGED vRet
       ELSE IF vId = None /\ vUid = None
       THEN vPc' = "raised" /\ vExc' = "ValueError" /\ UNCHANGED vRet
       ELSE IF vId # None
       THEN vPc' = "lookup" /\ UNCHANGED <<vRet, vExc>>
       ELSE vPc' = "returned" /\ vRet' = vUid /\ UNCHANGED vExc
    /\ UNCHANGED <<vFn, vId, vUid, vAnswer, vCalls, vAttempts>>
    /\ UNCHANGED notIdent

\* A variant that answers an empty result list with no identifier.
IdentLookupDefault ==
    /\ vPc = "lookup"
    /\ \E s \in Scripts :
         LET r == HttpClientGet(s)
         IN  /\ vAnswer' = r.out
             /\ vAttempts' = vAttempts + r.attempts
             /\ IF r.out \in {"ok", "missing"}
                THEN /\ vRet' = IF r.out = "ok" THEN UidOf(vId) ELSE ""
                     /\ vPc' = "returned"
                     /\ UNCHANGED vExc
                ELSE /\ vPc' = "raised"
                     /\ vExc' = ExcName(r.out)
                     /\ UNCHANGED vRet
    /\ vCalls' = vCalls + 1
    /\ UNCHANGED <<vFn, vId, vUid>>
    /\ UNCHANGED notIdent

\* validators.py 54-57, dataset.py 84-88, _legacy/getters.py 30-31:
\* client.get("/datasets/", params={"dataset_id": ...}) and
\* response.json()["results"][0]["uid"].
IdentLookup ==
    /\ vPc = "lookup"
    /\ \E s \in Scripts :
         LET r == HttpClientGet(s)
         IN  /\ vAnswer' = r.out
             /\ vAttempts' = vAttempts + r.attempts
             /\ IF r.out = "ok"
                THEN /\ vRet' = UidOf(vId)
                     /\ vPc' = "returned"
                     /\ UNCHANGED vExc
                ELSE /\ vPc' = "raised"
                     /\ vExc' = IF r.out = "missing" THEN "IndexError"
                                ELSE ExcName(r.out)
                     /\ UNCHANGED vRet
    /\ vCalls' = vCalls + 1
    /\ UNCHANGED <<vFn, vId, vUid>>
    /\ UNCHANGED notIdent

IdentNext ==
    \/ IdentValidate
    \/ IdentLookup

\* The entry points that take a dataset identifier: a run is a call of one
\* of the resolvers or a bulk fetch in its two forms.
EntryInit == IdentInit \/ FetchInit

EntryNext == IdentNext \/ FetchNext

SpecEntry == EntryInit /\ [][EntryNext]_vars

(***************************************************************************)
(* Properties of the identifier handling.                                  *)
(***************************************************************************)
IdentEnded == vPc \in {"returned", "raised"}

\* C15: validate_dataset_identifier, bulk_get_metadata and
\* bulk_get_metadata_async, called with both identifier forms or with
\* neither, raise ValueError and have issued no request when they raise;
\* they never get past the validation.
C15_BothOrNeitherRaisesBeforeRequest ==
    /\ (vFn = "validate_dataset_identifier" /\ (vId = None <=> vUid = None))
       => /\ vPc \in {"validate", "raised"}
          /\ vPc = "raised" => vExc = "ValueError"
          /\ vCalls = 0
          /\ vAttempts = 0
    /\ (argKind \in {"both", "neither"})
       => /\ pc \in {"validate", "raised", "end"}
          /\ pc = "raised" => exc = "ValueError"
          /\ nreq = 0
          /\ \A t \in DOMAIN remote : remote[t] = Unseen
          /\ \A m \in Modes :
                outcome[m].pc # "none"
                => /\ outcome[m].pc = "raised"
                   /\ outcome[m].exc = "ValueError"
                   /\ outcome[m].nreq = 0

\* C15 witness: the concurrent bulk fetch, after the sequential one, has
\* raised for a call with both identifier lists.
C15_Witness ==
    /\ argKind = "both"
    /\ outcome["sync"].exc = "ValueError"
    /\ outcome["async"].exc = "ValueError"

\* The call resolves a numeric id.
Resolving == vFn \in {"from_id", "get_uid_by_id"} \/ (vFn = "validate_dataset_identifier" /\ vId # None /\ vUid = None)

\* C16: resolving a numeric id issues one list query filtered by that id
\* and returns the uid of its first result; with zero results it raises
\* IndexError and returns nothing; it returns only after a query that had
\* a result.  validate_dataset_identifier given only a uid returns that uid
\* unchanged, the empty string too, without a request.
C16_ResolveByFirstResult ==
    /\ (Resolving /\ IdentEnded)
       => /\ vCalls = 1
          /\ vAnswer = "ok" => (vPc = "returned" /\ vRet = UidOf(vId))
          /\ vAnswer = "missing" => (vPc = "raised" /\ vExc = "IndexError" /\ vRet = None)
          /\ vPc = "returned" => vAnswer = "ok"
    /\ (Resolving /\ ~IdentEnded) => vCalls = 0
    /\ (vFn = "validate_dataset_identifier" /\ vId = None /\ vUid # None /\ IdentEnded)
       => /\ vPc = "returned"
          /\ vRet = vUid
          /\ vCalls = 0
          /\ vAttempts = 0

\* C16 witness: from_id whose query returned zero results.
C16_Witness ==
    /\ vFn = "from_id"
    /\ vAnswer = "missing"
    /\ vPc = "raised"
    /\ vExc = "IndexError"

(***************************************************************************)
(* HuwiseDataset._get_metadata_value and the getters built on it           *)
(* (get_title, get_description, get_license).                              *)
(***************************************************************************)
\* Field wrappers as the platform stores them: a value, a null value, or a
\* wrapper without a value member.
Wrappers ==
    {("value" :> "V1"), ("value" :> None), ("remote_value" :> "R0")}

\* The mappings of the field names in F to wrappers, any field being absent.
FieldMaps(F) ==
    UNION {[G -> Wrappers] : G \in SUBSET F}

\* Metadata documents in which the default and the internal template are
\* each present or missing.
ReadDocs ==
    LET defaults == FieldMaps({"title", "license"})
        internals == FieldMaps({"license_id"})
    IN  {("default" :> d) @@ ("internal" :> n) : d \in defaults, n \in internals}
        \cup {("default" :> d) : d \in defaults}
        \cup {("internal" :> n) : n \in internals}
        \cup {EmptyDoc}

Getters == {"get_title", "get_description", "get_license"}

\* The template and field of the getter's first read (dataset.py 171, 179,
\* 224) and of get_license's second read (226).
FirstRead(g) ==
    CASE g = "get_title" -> [template |-> "default", field |-> "title"]
      [] g = "get_description" -> [template |-> "default", field |-> "description"]
      [] OTHER -> [template |-> "internal", field |-> "license_id"]

SecondRead == [template |-> "default", field |-> "license"]

\* The body the platform answers GET /datasets/{uid}/metadata/{template}/
\* with: the template's fields, an empty object for a template without any.
TemplateBody(doc, template) ==
    IF template \in DOMAIN doc THEN doc[template] ELSE [f \in {} |-> [a \in {} |-> ""]]

\* A variant that reads the value with the empty string as default.
GetValueOrEmpty(template_data, field_name) ==
    IF field_name \in DOMAIN template_data /\ "value" \in DOMAIN template_data[field_name]
    THEN template_data[field_name]["value"]
    ELSE ""

\* dataset.py 115: template_data.get(field_name, {}).get("value")
GetValue(template_data, field_name) ==
    LET wrapper == IF field_name \in DOMAIN template_data
                   THEN template_data[field_name]
                   ELSE [a \in {} |-> ""]
    IN  IF "value" \in DOMAIN wrapper THEN wrapper["value"] ELSE None

ReadInit ==
    /\ gGetter \in Getters
    /\ gDoc \in ReadDocs
    /\ gPc = "first"
    /\ gValue = None
    /\ gRet = None
    /\ gExc = "none"
    /\ gLog = <<>>
    /\ FetchIdle
    /\ UpdIdle
    /\ WriteIdle
    /\ RetryIdle
    /\ ListIdle
    /\ IdentIdle
    /\ DsIdle

\* dataset.py 113-115 under 171 / 179 / 224-225: the getter's first read.
ReadFirst ==
    /\ gPc = "first"
    /\ \E s \in PlainScripts :
         LET r == HttpClientGet(s)
             rd == FirstRead(gGetter)
             v == GetValue(TemplateBody(gDoc, rd.template), rd.field)
         IN  /\ gLog' = Append(gLog, <<rd.template, r.out>>)
             /\ IF r.out # "ok"
                THEN /\ gPc' = "raised"
                     /\ gExc' = ExcName(r.out)
                     /\ UNCHANGED <<gValue, gRet>>
                ELSE IF gGetter = "get_license" /\ v = None
                THEN /\ gPc' = "second"
                     /\ gValue' = v
                     /\ UNCHANGED <<gRet, gExc>>
                ELSE /\ gPc' = "returned"
                     /\ gValue' = v
                     /\ gRet' = v
                     /\ UNCHANGED gExc
    /\ UNCHANGED <<gGetter, gDoc>>
    /\ UNCHANGED notRead

\* dataset.py 225-227: get_license falls back to default.license.
ReadSecond ==
    /\ gPc = "second"
    /\ \E s \in PlainScripts :
         LET r == HttpClientGet(s)
             v == GetValue(TemplateBody(gDoc, SecondRead.template), SecondRead.field)
         IN  /\ gLog' = Append(gLog, <<SecondRead.template, r.out>>)
             /\ IF r.out # "ok"
                THEN /\ gPc' = "raised"
                     /\ gExc' = ExcName(r.out)
                     /\ UNCHANGED <<gValue, gRet>>
                ELSE /\ gPc' = "returned"
                     /\ gValue' = v
                     /\ gRet' = v
                     /\ UNCHANGED gExc
    /\ UNCHANGED <<gGetter, gDoc>>
    /\ UNCHANGED notRead

ReadNext ==
    \/ ReadFirst
    \/ ReadSecond

SpecRead == ReadInit /\ [][ReadNext]_vars

(***************************************************************************)
(* Properties of the getters.                                              *)
(***************************************************************************)
\* The field is set in the document: template, field and value are there.
IsSet(doc, rd) ==
    /\ rd.template \in DOMAIN doc
    /\ rd.field \in DOMAIN doc[rd.template]
    /\ "value" \in DOMAIN doc[rd.template][rd.field]

ValueIn(doc, rd) == IF IsSet(doc, rd) THEN doc[rd.template][rd.field]["value"] ELSE None

\* C17: reading a field returns its unwrapped value when the field is
\* present in the template and None when the field or the template is
\* missing; a getter raises only when its request fails, never because
\* something is unset.  get_license returns internal.license_id, or
\* default.license when the former is unset.
C17_UnsetReadsAsNone ==
    /\ gPc = "raised"
       => /\ gLog[Len(gLog)][2] \in Faults
          /\ gExc = ExcName(gLog[Len(gLog)][2])
    /\ (gPc = "returned" /\ gGetter # "get_license")
       => gRet = ValueIn(gDoc, FirstRead(gGetter))
    /\ (gPc = "returned" /\ gGetter = "get_license")
       => gRet = IF ValueIn(gDoc, FirstRead(gGetter)) # None
                 THEN ValueIn(gDoc, FirstRead(gGetter))
                 ELSE ValueIn(gDoc, SecondRead)
    /\ \A l \in 1..Len(gLog) : l < Len(gLog) => gLog[l][2] = "ok"

\* C17 witness: get_title on a document without the default template has
\* returned None.
C17_Witness ==
    /\ gGetter = "get_title"
    /\ "default" \notin DOMAIN gDoc
    /\ "internal" \in DOMAIN gDoc
    /\ gPc = "returned"
    /\ gRet = None

(***************************************************************************)
(* A chain of calls on one HuwiseDataset: the single-field setters         *)
(* set_title and set_description, the setters of several fields            *)
(* set_license and set_modified, publish() and unpublish().  Every call    *)
(* returns self, and the next call of the chain is made on what the        *)
(* previous one returned.                                                  *)
(***************************************************************************)
MaxChain == 3        \* most calls in a chain
MaxWaits == 1        \* most non-idle answers to the status polls of a chain

PyBools == {"False", "True"}

\* A call: the method, its positional argument `a`, its optional keyword
\* arguments `b` and `c` (None when not passed), and `publish`.
SimpleCalls ==
    [op : {"set_title"}, a : {"T1"}, b : {None}, c : {None}, publish : BOOLEAN]
    \cup [op : {"set_description"}, a : {"D1"}, b : {None}, c : {None}, publish : BOOLEAN]
    \cup [op : {"publish", "unpublish"}, a : {None}, b : {None}, c : {None}, publish : {FALSE}]

CompoundCalls ==
    [op : {"set_license"}, a : {"5sylls5"}, b : {None, "CC BY 4.0"}, c : {None},
     publish : BOOLEAN]
    \cup [op : {"set_modified"}, a : {"2024-01-15"}, b : PyBools \cup {None},
          c : PyBools \cup {None}, publish : BOOLEAN]

\* The chains: calls of the simple methods, or a setter of several fields
\* alone or followed by one simple call.
Chains ==
    (SeqsUpTo(SimpleCalls, MaxChain) \ {<<>>})
    \cup {<<k>> \o q : k \in CompoundCalls, q \in SeqsUpTo(SimpleCalls, 1)}

DsFields ==
    {"title", "description", "license_id", "license", "modified",
     "modified_updates_on_metadata_change", "modified_updates_on_data_change"}

Put(field, value) == [field |-> field, value |-> value]

\* A variant that writes an optional argument only when it is truthy.
PutsWhenTruthy(call) ==
    CASE call.op = "set_title" -> <<Put("title", call.a)>>
      [] call.op = "set_description" -> <<Put("description", call.a)>>
      [] call.op = "set_license" ->
            <<Put("license_id", call.a)>>
            \o (IF call.b # None THEN <<Put("license", call.b)>> ELSE <<>>)
      [] call.op = "set_modified" ->
            <<Put("modified", call.a)>>
            \o (IF call.b = "True"
                THEN <<Put("modified_updates_on_metadata_change", call.b)>> ELSE <<>>)
            \o (IF call.c = "True"
                THEN <<Put("modified_updates_on_data_change", call.c)>> ELSE <<>>)
      [] OTHER -> <<>>

\* The PUTs of a setter, in the order of its statements: dataset.py 133-136
\* under 352 / 364; 441-451; 629-645.
Puts(call) ==
    CASE call.op = "set_title" -> <<Put("title", call.a)>>
      [] call.op = "set_description" -> <<Put("description", call.a)>>
      [] call.op = "set_license" ->
            <<Put("license_id", call.a)>>
            \o (IF call.b # None THEN <<Put("license", call.b)>> ELSE <<>>)
      [] call.op = "set_modified" ->
            <<Put("modified", call.a)>>
            \o (IF call.b # None
                THEN <<Put("modified_updates_on_metadata_change", call.b)>> ELSE <<>>)
            \o (IF call.c # None
                THEN <<Put("modified_updates_on_data_change", call.c)>> ELSE <<>>)
      [] OTHER -> <<>>

\* A variant that publishes after every setter.
PublishAlways(call) == TRUE

\* dataset.py 145, 460, 655: if publish: self.publish()
PublishAfter(call) == call.publish

\* The requests as the log keeps them: the call they belong to, the
\* method, the endpoint below /datasets/{uid}/, and the body sent (for a
\* status poll, the status answered).
DsStatusPoll(n, answer) == <<n, "GET", "status", answer>>
DsFieldPut(n, put) == <<n, "PUT", "metadata/default/" \o put.field \o "/", put.value>>
DsPost(n, action) == <<n, "POST", action \o "/", "">>

DsNonIdlePolls ==
    Cardinality({l \in 1..Len(dLog) :
                    dLog[l][3] = "status" /\ dLog[l][4] \in Statuses \ {"idle"}})

DsInit ==
    /\ dChain \in Chains
    /\ dAt = 1
    /\ dPc = "call"
    /\ dK = 1
    /\ dLog = <<>>
    /\ dExc = "none"
    /\ dRet = None
    /\ dStaged = [f \in DsFields |-> "old"]
    /\ dVisible = [f \in DsFields |-> "old"]
    /\ dPublished \in BOOLEAN
    /\ FetchIdle
    /\ UpdIdle
    /\ WriteIdle
    /\ RetryIdle
    /\ ListIdle
    /\ IdentIdle
    /\ ReadIdle

\* The call returns self and the chain goes on to its next call.
DsReturn ==
    /\ dRet' = "self"
    /\ dAt' = dAt + 1
    /\ dPc' = "call"
    /\ dK' = 1

\* A variant in which publish() and unpublish() wait for idle as well.
DsEnterWaiting ==
    /\ dPc = "call"
    /\ dAt <= Len(dChain)
    /\ dPc' = "poll"
    /\ UNCHANGED <<dChain, dAt, dK, dLog, dExc, dRet, dStaged, dVisible, dPublished>>
    /\ UNCHANGED notDs

\* The next method of the chain is entered: a setter starts with
\* self._wait_for_idle() (dataset.py 132, 438, 626), publish() and
\* unpublish() go straight to their POST (670, 680).
DsEnter ==
    /\ dPc = "call"
    /\ dAt <= Len(dChain)
    /\ dPc' = IF dChain[dAt].op \in {"publish", "unpublish"} THEN "post" ELSE "poll"
    /\ UNCHANGED <<dChain, dAt, dK, dLog, dExc, dRet, dStaged, dVisible, dPublished>>
    /\ UNCHANGED notDs

\* dataset.py 92-97: one status poll and the test of its answer.
DsPoll ==
    /\ dPc = "poll"
    /\ \E s \in Scripts :
         LET r == HttpClientGet(s)
         IN  IF r.out = "ok"
             THEN \E status \in Statuses :
                    /\ ~IsIdle(status) => DsNonIdlePolls < MaxWaits
                    /\ dLog' = Append(dLog, DsStatusPoll(dAt, status))
                    /\ dPc' = IF IsIdle(status) THEN "put" ELSE "sleep"
                    /\ UNCHANGED dExc
             ELSE /\ dLog' = Append(dLog, DsStatusPoll(dAt, "raise"))
                  /\ dPc' = "raised"
                  /\ dExc' = ExcName(r.out)
    /\ UNCHANGED <<dChain, dAt, dK, dRet, dStaged, dVisible, dPublished>>
    /\ UNCHANGED notDs

\* dataset.py 98: time.sleep(3), then the next poll.
DsSleep ==
    /\ dPc = "sleep"
    /\ dPc' = "poll"
    /\ UNCHANGED <<dChain, dAt, dK, dLog, dExc, dRet, dStaged, dVisible, dPublished>>
    /\ UNCHANGED notDs

\* A variant whose PUT sends the whole document as it was when the chain
\* started, with the one field changed.
DsPutWholeDocument ==
    /\ dPc = "put"
    /\ LET call == dChain[dAt]
           put == Puts(call)[dK]
       IN  /\ dLog' = Append(dLog, DsFieldPut(dAt, put))
           /\ \E s \in PlainScripts :
                LET r == HttpClientGet(s)
                IN  IF r.out # "ok"
                    THEN /\ dPc' = "raised"
                         /\ dExc' = ExcName(r.out)
                         /\ UNCHANGED <<dStaged, dK, dAt, dRet>>
                    ELSE /\ dStaged' = [f \in DsFields |->
                                          IF f = put.field THEN put.value
                                          ELSE IF dStaged[f] \in {"old", "3P"} THEN "old"
                                          ELSE dStaged[f]]
                         /\ UNCHANGED dExc
                         /\ IF dK < Len(Puts(call))
                            THEN dK' = dK + 1 /\ UNCHANGED <<dPc, dAt, dRet>>
                            ELSE IF PublishAfter(call)
                            THEN dPc' = "post" /\ UNCHANGED <<dK, dAt, dRet>>
                            ELSE DsReturn
    /\ UNCHANGED <<dChain, dVisible, dPublished>>
    /\ UNCHANGED notDs

\* A variant that goes on with the setter's remaining requests after a PUT
\* has raised.
DsPutContinuing ==
    /\ dPc = "put"
    /\ LET call == dChain[dAt]
           put == Puts(call)[dK]
       IN  /\ dLog' = Append(dLog, DsFieldPut(dAt, put))
           /\ \E s \in PlainScripts :
                LET r == HttpClientGet(s)
                IN  /\ IF r.out # "ok"
                       THEN dExc' = ExcName(r.out) /\ UNCHANGED dStaged
                       ELSE /\ dStaged' = [dStaged EXCEPT ![put.field] = put.value]
                            /\ UNCHANGED dExc
                    /\ IF dK < Len(Puts(call))
                       THEN dK' = dK + 1 /\ UNCHANGED <<dPc, dAt, dRet>>
                       ELSE IF PublishAfter(call)
                       THEN dPc' = "post" /\ UNCHANGED <<dK, dAt, dRet>>
                       ELSE DsReturn
    /\ UNCHANGED <<dChain, dVisible, dPublished>>
    /\ UNCHANGED notDs

\* dataset.py 133-148, 441-463, 629-658: the next PUT of the setter; after
\* the last one the setter publishes or returns self.
DsPut ==
    /\ dPc = "put"
    /\ LET call == dChain[dAt]
           put == Puts(call)[dK]
       IN  /\ dLog' = Append(dLog, DsFieldPut(dAt, put))
           /\ \E s \in PlainScripts :
                LET r == HttpClientGet(s)
                IN  IF r.out # "ok"
                    THEN /\ dPc' = "raised"
                         /\ dExc' = ExcName(r.out)
                         /\ UNCHANGED <<dStaged, dK, dAt, dRet>>
                    ELSE /\ dStaged' = [dStaged EXCEPT ![put.field] = put.value]
                         /\ UNCHANGED dExc
                         /\ IF dK < Len(Puts(call))
                            THEN dK' = dK + 1 /\ UNCHANGED <<dPc, dAt, dRet>>
                            ELSE IF PublishAfter(call)
                            THEN dPc' = "post" /\ UNCHANGED <<dK, dAt, dRet>>
                            ELSE DsReturn
    /\ UNCHANGED <<dChain, dVisible, dPublished>>
    /\ UNCHANGED notDs

\* dataset.py 664-682: publish() (called by the chain or by a setter) and
\* unpublish(): one POST, then self is returned.
DsPostAction ==
    /\ dPc = "post"
    /\ LET action == IF dChain[dAt].op = "unpublish" THEN "unpublish" ELSE "publish"
       IN  /\ dLog' = Append(dLog, DsPost(dAt, action))
           /\ \E s \in PlainScripts :
                LET r == HttpClientGet(s)
                IN  IF r.out # "ok"
                    THEN /\ dPc' = "raised"
                         /\ dExc' = ExcName(r.out)
                         /\ UNCHANGED <<dVisible, dPublished, dK, dAt, dRet>>
                    ELSE /\ dVisible' = IF action = "publish" THEN dStaged ELSE dVisible
                         /\ dPublished' = (action = "publish")
                         /\ UNCHANGED dExc
                         /\ DsReturn
    /\ UNCHANGED <<dChain, dStaged>>
    /\ UNCHANGED notDs

DsNext ==
    \/ DsEnter
    \/ DsPoll
    \/ DsSleep
    \/ DsPut
    \/ DsPostAction

SpecDataset == DsInit /\ [][DsNext]_vars

(***************************************************************************)
(* Properties of the calls on a dataset.                                   *)
(***************************************************************************)
SingleSetters == {"set_title", "set_description"}

\* The requests of the n-th call of the chain, in order.
CallLog(n) == SelectSeq(dLog, LAMBDA e : e[1] = n)

IsPoll(e) == e[2] = "GET" /\ e[3] = "status"

PollsOf(n) == SelectSeq(CallLog(n), IsPoll)
WritesOf(n) == SelectSeq(CallLog(n), LAMBDA e : ~IsPoll(e))

\* The n-th call has returned.
Completed(n) == n < dAt

ChainDone == dPc = "call" /\ dAt > Len(dChain)

\* The n-th call polled first: its requests are its polls followed by its
\* other requests, the last poll answered idle and no other one.
WaitedFirst(n) ==
    /\ CallLog(n) = PollsOf(n) \o WritesOf(n)
    /\ Len(PollsOf(n)) >= 1
    /\ \A j \in 1..Len(PollsOf(n)) :
          PollsOf(n)[j][4] = "idle" <=> j = Len(PollsOf(n))

CountOf(method) == Cardinality({l \in 1..Len(dLog) : dLog[l][2] = method})

\* The field a single-field setter writes.
FieldOf(op) == IF op = "set_title" THEN "title" ELSE "description"

\* C18: a single-field setter that has returned has issued its status
\* polls, then one PUT to metadata/default/{field}/ with body {value},
\* then one publish POST when publish is true and none when it is false,
\* and has returned self.  A chain of N setters with publish=False followed
\* by publish() has issued N PUTs and one POST, the POST last.
C18_SetterRequestOrder ==
    /\ \A n \in 1..Len(dChain) :
          (Completed(n) /\ dChain[n].op \in SingleSetters)
          => /\ WaitedFirst(n)
             /\ WritesOf(n) =
                   <<<<n, "PUT", "metadata/default/" \o FieldOf(dChain[n].op) \o "/",
                       dChain[n].a>>>>
                   \o (IF dChain[n].publish THEN <<<<n, "POST", "publish/", "">>>> ELSE <<>>)
    /\ dAt > 1 => dRet = "self"
    /\ (/\ ChainDone
        /\ Len(dChain) >= 2
        /\ dChain[Len(dChain)].op = "publish"
        /\ \A n \in 1..(Len(dChain) - 1) :
              dChain[n].op \in SingleSetters /\ ~dChain[n].publish)
       => /\ CountOf("PUT") = Len(dChain) - 1
          /\ CountOf("POST") = 1
          /\ dLog[Len(dLog)] = <<Len(dChain), "POST", "publish/", "">>

\* C18 witness: the chain set_title(publish=False),
\* set_description(publish=False), publish() has completed.
C18_Witness ==
    /\ ChainDone
    /\ Len(dChain) = 3
    /\ dChain[1].op = "set_title" /\ ~dChain[1].publish
    /\ dChain[2].op = "set_description" /\ ~dChain[2].publish
    /\ dChain[3].op = "publish"
    /\ CountOf("PUT") = 2

\* C19: publish() and unpublish() issue one POST, to publish/ respectively
\* unpublish/, and no status poll: the requests of such a call are that
\* POST alone once the call has ended, and nothing before the POST.
C19_PublishDoesNotWait ==
    \A n \in 1..Len(dChain) :
        dChain[n].op \in {"publish", "unpublish"}
        => /\ CallLog(n) \in {<<>>, <<<<n, "POST", dChain[n].op \o "/", "">>>>}
           /\ (Completed(n) \/ (dAt = n /\ dPc = "raised")) => CallLog(n) # <<>>

\* C19 witness: unpublish() right after a setter that had to wait; the
\* platform then shows the dataset as unpublished.
C19_Witness ==
    /\ ChainDone
    /\ Len(dChain) = 2
    /\ dChain[1].op = "set_title"
    /\ dChain[2].op = "unpublish"
    /\ DsNonIdlePolls = 1
    /\ ~dPublished

\* The writes set_license and set_modified are to issue, from their
\* arguments.
LicenseWrites(n, call) ==
    <<<<n, "PUT", "metadata/default/license_id/", call.a>>>>
    \o (IF call.b # None THEN <<<<n, "PUT", "metadata/default/license/", call.b>>>> ELSE <<>>)
    \o (IF call.publish THEN <<<<n, "POST", "publish/", "">>>> ELSE <<>>)

ModifiedWrites(n, call) ==
    <<<<n, "PUT", "metadata/default/modified/", call.a>>>>
    \o (IF call.b # None
        THEN <<<<n, "PUT", "metadata/default/modified_updates_on_metadata_change/", call.b>>>>
        ELSE <<>>)
    \o (IF call.c # None
        THEN <<<<n, "PUT", "metadata/default/modified_updates_on_data_change/", call.c>>>>
        ELSE <<>>)
    \o (IF call.publish THEN <<<<n, "POST", "publish/", "">>>> ELSE <<>>)

\* C20: set_license waits for idle, PUTs default.license_id, PUTs
\* default.license only when license_name is not None, and publishes when
\* publish is true, in that order; when it has returned, license_id is the
\* given id and license the given name if there was one, unchanged
\* otherwise.  set_modified PUTs default.modified and then each of the two
\* flags whose argument is not None, False included, in that order.
C20_LicenseAndModifiedOrder ==
    \A n \in 1..Len(dChain) :
        /\ (Completed(n) /\ dChain[n].op = "set_license")
           => /\ WaitedFirst(n)
              /\ WritesOf(n) = LicenseWrites(n, dChain[n])
              /\ dStaged["license_id"] = dChain[n].a
              /\ dStaged["license"] = IF dChain[n].b # None THEN dChain[n].b ELSE "old"
        /\ (Completed(n) /\ dChain[n].op = "set_modified")
           => /\ WaitedFirst(n)
              /\ WritesOf(n) = ModifiedWrites(n, dChain[n])
              /\ dStaged["modified"] = dChain[n].a
              /\ dStaged["modified_updates_on_metadata_change"] =
                    IF dChain[n].b # None THEN dChain[n].b ELSE "old"
              /\ dStaged["modified_updates_on_data_change"] =
                    IF dChain[n].c # None THEN dChain[n].c ELSE "old"

\* C20 witness: set_modified with updates_on_metadata_change=False and
\* updates_on_data_change not passed has returned; False has been written.
C20_Witness ==
    /\ dChain[1].op = "set_modified"
    /\ dChain[1].b = "False"
    /\ dChain[1].c = None
    /\ dChain[1].publish
    /\ Completed(1)
    /\ dStaged["modified_updates_on_metadata_change"] = "False"
    /\ dVisible["modified_updates_on_metadata_change"] = "False"

(***************************************************************************)
(* The same write made twice: a bulk update handed the same spec twice     *)
(* (the loop body of bulk.py 137-181 is all that a call does for a spec,   *)
(* so a second call with the spec does what the second turn of the loop    *)
(* does), or a single-field setter called twice with the same arguments.   *)
(* Nobody else writes.                                                     *)
(***************************************************************************)
TwiceInit ==
    \/ /\ UpdInit
       /\ Len(updates) = 2
       /\ updates[1] = updates[2]
    \/ /\ DsInit
       /\ Len(dChain) = 2
       /\ dChain[1] = dChain[2]
       /\ dChain[1].op \in SingleSetters

TwiceNext == UpdNext \/ DsNext

SpecTwice == TwiceInit /\ [][TwiceNext]_vars

\* The document PUT of an earlier spec was answered 2xx.
PutAnswered(uid) ==
    \E l \in 1..Len(uLog) : uLog[l] = <<"PUT", "metadata", uid, "ok">>

\* C21: writing the same value to the same field twice leaves the remote
\* metadata as writing it once does.  Once the first of two equal bulk
\* update specs has put its document, no step made for the second spec
\* changes any remote document; once the first of two equal calls of a
\* single-field setter has returned, no step of the second call changes
\* the staged or the published metadata.  A value is assigned, never
\* appended, so a list value is not duplicated.
C21_SecondWriteChangesNothing ==
    [][/\ (/\ Len(updates) = 2
           /\ updates[1] = updates[2]
           /\ uIdx = 2
           /\ PutAnswered(NamedUid(updates[1])))
          => docs' = docs
       /\ (/\ Len(dChain) = 2
           /\ dChain[1] = dChain[2]
           /\ dChain[1].op \in SingleSetters
           /\ Completed(1))
          => (dStaged' = dStaged /\ dVisible' = dVisible)]_vars

\* C21 witness: the spec {keywords: K, title: Y} has been put twice on a
\* dataset that had no default template; the remote document holds each
\* value once.
C21_Witness ==
    /\ uPc = "returned"
    /\ Len(updates) = 2
    /\ updates[1] = updates[2]
    /\ Cardinality({l \in 1..Len(uLog) :
                       uLog[l] = <<"PUT", "metadata", uUid, "ok">>}) = 2
    /\ Len(updates[1].fields) = 2
    /\ docs[uUid]["default"]["keywords"]["value"] = "K"
    /\ docs[uUid]["default"]["title"]["value"] = "Y"

(***************************************************************************)
(* Further properties of the bulk update.                                  *)
(***************************************************************************)
\* The request is a status poll of the resource, answered idle.
IdlePollOf(e, uid) == e = <<"GET", "status", uid, "idle">>

\* The request changes the resource: the document PUT or the publish POST.
Mutates(e, uid) == e[1] \in {"PUT", "POST"} /\ e[3] = uid

\* C22: every PUT that changes metadata is preceded by a status poll of
\* the same resource that was answered idle, and the library has sent no
\* other mutation of that resource between that poll and the PUT.
C22_PutPrecededByIdlePoll ==
    \A l \in 1..Len(uLog) :
       uLog[l][1] = "PUT"
       => \E k \in 1..(l - 1) :
            /\ IdlePollOf(uLog[k], uLog[l][3])
            /\ \A m \in (k + 1)..(l - 1) : ~Mutates(uLog[m], uLog[l][3])

\* C23: a bulk update moves past a spec only after the spec's resource
\* has answered a status poll with idle: while the resource stays in
\* processing the spec does not complete and no later spec is taken up.
\* (The status is the platform's; the update reads it through its polls
\* only, so a resource that was never seen idle may be processing for the
\* whole call.)
C23_ProcessingStallsBatch ==
    \A j \in 1..Len(updates) :
       (j < uIdx /\ SpecValid(updates[j]))
       => \E k \in 1..Len(uLog) : IdlePollOf(uLog[k], NamedUid(updates[j]))

\* The metadata GETs of the log, in order: one per spec that got that far.
MetadataGets == SelectSeq(uLog, LAMBDA e : e[1] = "GET" /\ e[2] = "metadata")

\* C24: for every spec of a bulk update the requests for its uid come in
\* the order metadata GET, document PUT, publish POST.  The PUT follows
\* the answered GET of the same uid directly; a POST is sent only when
\* publish is true, and then directly after the PUT of the same uid was
\* answered; with publish false there is no POST.  Specs are processed one
\* at a time in the order given: the k-th metadata GET is for the k-th
\* spec, and an answered request is followed by the next request of the
\* same spec before anything else is sent.
C24_GetPutPostInOrder ==
    /\ Len(MetadataGets) <= Len(updates)
    /\ \A k \in 1..Len(MetadataGets) : MetadataGets[k][3] = NamedUid(updates[k])
    /\ \A l \in 1..Len(uLog) :
          /\ uLog[l][1] = "PUT"
             => (l > 1 /\ uLog[l - 1] = <<"GET", "metadata", uLog[l][3], "ok">>)
          /\ uLog[l][1] = "POST"
             => /\ publish
                /\ l > 1
                /\ uLog[l - 1] = <<"PUT", "metadata", uLog[l][3], "ok">>
          /\ (uLog[l][1] = "GET" /\ uLog[l][2] = "metadata" /\ uLog[l][4] = "ok")
             => IF l = Len(uLog) THEN uPc = "put"
                ELSE uLog[l + 1][1] = "PUT" /\ uLog[l + 1][3] = uLog[l][3]
          /\ (uLog[l][1] = "PUT" /\ uLog[l][4] = "ok" /\ publish)
             => IF l = Len(uLog) THEN uPc = "post"
                ELSE uLog[l + 1][1] = "POST" /\ uLog[l + 1][3] = uLog[l][3]

\* C24 witness: a returned update of two datasets with publish: GET, PUT
\* and POST for the first, then GET, PUT and POST for the second.
C24_Witness ==
    /\ uPc = "returned"
    /\ publish
    /\ Len(uLog) = 6
    /\ [l \in 1..6 |-> uLog[l][1]] = <<"GET", "PUT", "POST", "GET", "PUT", "POST">>
    /\ \A l \in 1..3 : uLog[l][3] = "da_a" /\ uLog[l + 3][3] = "da_b"
    /\ \A l \in 1..6 : uLog[l][4] = "ok"

\* The keys a spec sets (its items other than the two identifiers) and the
\* value it gives to a key.
KeysOf(u) == {u.fields[j].key : j \in 1..Len(u.fields)}
ValueOf(u, key) ==
    LET j == CHOOSE n \in 1..Len(u.fields) : u.fields[n].key = key
    IN  u.fields[j].value

\* The fields of a template of a document, none when the template is absent.
FieldsOf(doc, t) == IF t \in DOMAIN doc THEN DOMAIN doc[t] ELSE {}

\* C25: the document about to be PUT is the fetched document except that
\* default[key].value is the spec's value for every key of the spec that
\* is not an identifier, the default template and the field's wrapper
\* being created when absent.  Every other template, every other field of
\* the default template and every other attribute of a written field are
\* as fetched.  fields_updated lists exactly those keys, in the order of
\* the spec.
C25_PutIsFetchedPlusValues ==
    uPc = "put"
    => LET u == updates[uIdx]
           fetched == docs[uUid]
           sent == uMetadata
       IN  /\ DOMAIN sent = DOMAIN fetched \cup {"default"}
           /\ \A t \in DOMAIN sent \ {"default"} : sent[t] = fetched[t]
           /\ DOMAIN sent["default"] = FieldsOf(fetched, "default") \cup KeysOf(u)
           /\ \A f \in DOMAIN sent["default"] \ KeysOf(u) :
                 sent["default"][f] = fetched["default"][f]
           /\ \A f \in KeysOf(u) :
                 LET was == IF f \in FieldsOf(fetched, "default")
                            THEN fetched["default"][f]
                            ELSE [a \in {} |-> ""]
                 IN  /\ DOMAIN sent["default"][f] = DOMAIN was \cup {"value"}
                     /\ sent["default"][f]["value"] = ValueOf(u, f)
                     /\ \A a \in DOMAIN was \ {"value"} :
                           sent["default"][f][a] = was[a]
           /\ Len(uFields) = Len(u.fields)
           /\ \A j \in 1..Len(uFields) : uFields[j] = u.fields[j].key

\* C25 witness: the spec {keywords: K, title: Y} on a document whose title
\* wrapper carries a second attribute and which has no keywords field: the
\* document to PUT has both values, the other attribute and the internal
\* template.
C25_Witness ==
    /\ uPc = "put"
    /\ docs[uUid] = DocWithDefault
    /\ uFields = <<"keywords", "title">>
    /\ uMetadata["default"]["keywords"] = ("value" :> "K")
    /\ uMetadata["default"]["title"] = ("value" :> "Y" @@ "remote_value" :> "R0")
    /\ uMetadata["internal"] = DocWithDefault["internal"]

(***************************************************************************)
(* A bulk update while somebody else writes to the same platform.  The     *)
(* other writer sets one field that no spec of the model names, through    *)
(* the field's own endpoint, at any moment of the call; the log shows     *)
(* its request among those of the call, in the order the platform got      *)
(* them.                                                                   *)
(***************************************************************************)
MaxThird == 1        \* most writes of the other writer during one call

ThirdField == "description"
ThirdValue == "3P"

ThirdWrite(uid) == <<"PUT", "third", uid, "ok">>

ThirdWrites == Cardinality({l \in 1..Len(uLog) : uLog[l][2] = "third"})

ThirdPartyWrite ==
    /\ ~UpdEnded
    /\ ThirdWrites < MaxThird
    /\ \E j \in 1..Len(updates) :
         /\ SpecValid(updates[j])
         /\ LET uid == NamedUid(updates[j])
            IN  /\ docs' = [docs EXCEPT ![uid] = SetField(docs[uid], ThirdField, ThirdValue)]
                /\ uLog' = Append(uLog, ThirdWrite(uid))
    /\ UNCHANGED <<updates, publish, uPc, uIdx, uUid, uMetadata, uFields,
                   results, uExc>>
    /\ UNCHANGED notUpd

\* A call with one spec: the race is between that spec's requests and the
\* other writer.
RaceInit ==
    /\ UpdInit
    /\ Len(updates) = 1

RaceNext == UpdNext \/ ThirdPartyWrite

SpecUpdateRace == RaceInit /\ [][RaceNext]_vars

\* The step is a request of the call with the given method, answered 2xx.
Answered(method) ==
    /\ Len(uLog') = Len(uLog) + 1
    /\ uLog'[Len(uLog')] = <<method, IF method = "PUT" THEN "metadata" ELSE "publish",
                             uUid, "ok">>

\* C26: the bulk update checks no version.  Its PUT, when answered, makes
\* the remote document the one it fetched and modified, whatever was
\* written to the resource since the fetch: a change somebody else made to
\* another field in between is replaced by the stale value.  The spec is
\* reported as success all the same: by the answered PUT itself when
\* publish is false, by the answered publish POST when it is true.
C26_StaleDocumentOverwrites ==
    [][/\ Answered("PUT")
          => /\ docs'[uUid] = uMetadata
             /\ ~publish => results'[uUid] = Success(uFields)
       /\ Answered("POST") => results'[uUid] = Success(uFields)]_vars

\* C26 witness: the platform received the metadata GET of a resource, then
\* the other writer's PUT of description, then the document PUT; the spec
\* is reported as success and the remote document no longer has the other
\* writer's value.
C26_Witness ==
    /\ uPc = "returned"
    /\ \E l \in 1..(Len(uLog) - 2) :
         LET uid == uLog[l][3]
         IN  /\ uLog[l] = <<"GET", "metadata", uid, "ok">>
             /\ uLog[l + 1] = ThirdWrite(uid)
             /\ uLog[l + 2] = <<"PUT", "metadata", uid, "ok">>
             /\ results[uid].status = "success"
             /\ ThirdField \notin FieldsOf(docs[uid], "default")

(***************************************************************************)
(* One setter call on a HuwiseDataset while somebody else writes to the    *)
(* same dataset: the other writer PUTs a value to the endpoint of a field  *)
(* the call does not target, at any moment of the call.  Its requests are  *)
(* in the log under call number 0.                                         *)
(***************************************************************************)
\* The fields a call writes.
Targeted(call) == {Puts(call)[k].field : k \in 1..Len(Puts(call))}

\* The fields the other writer may write.
DsThirdFields == {"title", "description", "license"}

DsThirdWrites == Cardinality({l \in 1..Len(dLog) : dLog[l][1] = 0})

DsRaceInit ==
    /\ DsInit
    /\ Len(dChain) = 1
    /\ dChain[1].op \notin {"publish", "unpublish"}

DsThirdPartyWrite ==
    /\ dPc \notin {"raised"}
    /\ dAt <= Len(dChain)
    /\ DsThirdWrites < MaxThird
    /\ \E f \in DsThirdFields \ Targeted(dChain[1]) :
         /\ dStaged' = [dStaged EXCEPT ![f] = ThirdValue]
         /\ dLog' = Append(dLog, DsFieldPut(0, Put(f, ThirdValue)))
    /\ UNCHANGED <<dChain, dAt, dPc, dK, dExc, dRet, dVisible, dPublished>>
    /\ UNCHANGED notDs

DsRaceNext == DsNext \/ DsThirdPartyWrite

SpecDatasetRace == DsRaceInit /\ [][DsRaceNext]_vars

\* The other writer has written the field.
ThirdWrote(f) ==
    \E l \in 1..Len(dLog) : dLog[l] = DsFieldPut(0, Put(f, ThirdValue))

PutsTo(uid) ==
    Cardinality({l \in 1..Len(uLog) : uLog[l][1] = "PUT" /\ uLog[l][3] = uid})

\* C28: within one bulk update no resource is processed twice, also when
\* two specs name the same resource (the same uid twice, or once by
\* dataset_id and once by dataset_uid): a resource gets at most one
\* metadata GET and at most one document PUT per call.
C28_NoResourceProcessedTwice ==
    \A uid \in Uids :
       /\ PutsTo(uid) <= 1
       /\ Cardinality({k \in 1..Len(MetadataGets) : MetadataGets[k][3] = uid}) <= 1

\* The requests of the spec last taken up: from the last metadata GET to
\* the end of the log.
RequestsOfSpec ==
    LET g == CHOOSE l \in 1..Len(uLog) :
                /\ uLog[l][1] = "GET" /\ uLog[l][2] = "metadata"
                /\ \A m \in (l + 1)..Len(uLog) :
                      ~(uLog[m][1] = "GET" /\ uLog[m][2] = "metadata")
    IN  SubSeq(uLog, g, Len(uLog))

\* GET, PUT and, with publish, POST of the uid, each answered.
AllAnswered(uid) ==
    <<<<"GET", "metadata", uid, "ok">>, <<"PUT", "metadata", uid, "ok">>>>
    \o (IF publish THEN <<<<"POST", "publish", uid, "ok">>>> ELSE <<>>)

\* The loop has just left a spec (the one before uIdx).
SpecLeft == uPc \in {"loop", "returned"} /\ uIdx > 1

\* C29: when the bulk update leaves a spec, the outcome recorded for its
\* uid is success exactly when the spec's metadata GET, its document PUT
\* and, with publish true, its publish POST were all answered.  A publish
\* POST that raises after an answered PUT gives the outcome error although
\* the remote document is already the rewritten one.
C29_SuccessIffAllRequestsReturned ==
    SpecLeft
    => /\ uUid = NamedUid(updates[uIdx - 1])
       /\ uUid \in DOMAIN results
       /\ results[uUid].status \in {"success", "error"}
       /\ results[uUid].status = "success" <=> RequestsOfSpec = AllAnswered(uUid)
       /\ (Len(RequestsOfSpec) = 3 /\ RequestsOfSpec[3][4] # "ok")
          => /\ results[uUid].status = "error"
             /\ RequestsOfSpec[2] = <<"PUT", "metadata", uUid, "ok">>
             /\ docs[uUid] = uMetadata

\* C29 witness: the document PUT of da_a was answered and its publish POST
\* raised: the outcome is error, the remote document has the new title.
C29_Witness ==
    /\ uPc = "returned"
    /\ Len(uLog) = 3
    /\ uLog[2] = <<"PUT", "metadata", "da_a", "ok">>
    /\ uLog[3][1] = "POST"
    /\ uLog[3][4] # "ok"
    /\ results["da_a"].status = "error"
    /\ updates[1].fields = <<[key |-> "title", value |-> "X"]>>
    /\ docs["da_a"]["default"]["title"]["value"] = "X"

(***************************************************************************)
(* The operations of several requests: one spec of a bulk update, or a     *)
(* setter of HuwiseDataset (alone, or followed by one more call of the     *)
(* chain).                                                                 *)
(***************************************************************************)
AbortInit ==
    \/ RaceInit
    \/ /\ DsInit
       /\ Len(dChain) <= 2
       /\ dChain[1].op \notin {"publish", "unpublish"}

AbortNext == UpdNext \/ DsNext

SpecAbort == AbortInit /\ [][AbortNext]_vars

\* The first n PUTs of a setter, as the log shows them.
FirstPuts(n, call, k) == [j \in 1..k |-> DsFieldPut(n, Puts(call)[j])]

\* C30: when a request of an operation of several requests has raised,
\* the operation issues no further request for the resource and what the
\* earlier requests did stays done.  For a bulk update spec: a request
\* that raised is followed in the log by nothing but the first request of
\* a later spec, and after an answered PUT the remote document stays the
\* one that was PUT.  For a setter: the call has raised with the failed
\* request as the last one of the log; a failed poll is followed by no PUT,
\* a failed PUT by no further PUT and no publish POST (the PUTs in the log
\* are those up to the failed one), and the fields written by the answered
\* PUTs keep the values written.
C30_NothingAfterARaisedRequest ==
    /\ \A l \in 1..Len(uLog) :
          uLog[l][4] # "ok"
          => /\ l = Len(uLog) \/ uLog[l + 1][1] = "GET"
             /\ (l > 1 /\ uLog[l - 1] = <<"PUT", "metadata", uLog[l][3], "ok">>
                 /\ l = Len(uLog))
                => docs[uLog[l][3]] = uMetadata
    /\ dExc # "none"
       => LET call == dChain[dAt]
              last == dLog[Len(dLog)]
          IN  /\ dPc = "raised"
              /\ last[1] = dAt
              /\ \A l \in 1..Len(dLog) : dLog[l][1] <= dAt
              /\ IsPoll(last) => (last[4] = "raise" /\ WritesOf(dAt) = <<>>)
              /\ last[2] = "PUT"
                 => /\ WritesOf(dAt) = FirstPuts(dAt, call, dK)
                    /\ \A j \in 1..(dK - 1) :
                          dStaged[Puts(call)[j].field] = Puts(call)[j].value
              /\ last[2] = "POST"
                 => /\ WritesOf(dAt) =
                          FirstPuts(dAt, call, Len(Puts(call)))
                          \o <<last>>
                    /\ \A j \in 1..Len(Puts(call)) :
                          dStaged[Puts(call)[j].field] = Puts(call)[j].value

\* C30 witness: set_license with a license name and publish true; the PUT
\* of license_id was answered, the PUT of license raised.  The log ends
\* with that PUT, there is no publish POST, and license_id keeps the new
\* value.
C30_Witness ==
    /\ Len(dChain) >= 1
    /\ dChain[1].op = "set_license"
    /\ dChain[1].b # None
    /\ dChain[1].publish
    /\ dPc = "raised"
    /\ dAt = 1
    /\ dK = 2
    /\ dLog[Len(dLog)] = DsFieldPut(1, Put("license", dChain[1].b))
    /\ CountOf("POST") = 0
    /\ dStaged["license_id"] = dChain[1].a
    /\ dStaged["license"] = "old"

====
